---- MODULE Spec2Model ----
(***************************************************************************)
(* A model of the analytical core of control/freqplot.py:                  *)
(*   - SpecCount: the encirclement count of nyquist_plot,                  *)
(*   - SpecContour: the contour construction of nyquist_plot (pole         *)
(*     indentation),                                                       *)
(*   - SpecOmega: _determine_omega_vector (the frequency grid of a call),  *)
(*   - SpecRange: _default_frequency_range,                                *)
(*   - SpecSweep: the loops over the systems of bode_plot, nyquist_plot    *)
(*     and singular_values_plot (Nyquist frequency, errors),               *)
(*   - SpecAlign: the phase of bode_plot (initial_phase, wrap_phase),      *)
(*   - SpecSigma: the singular values of singular_values_plot.             *)
(*                                                                         *)
(* Numbers.  Reals are modelled exactly on integer lattices:               *)
(*   - angles are integers in units of pi / Pi (Pi == 4: eighths of a      *)
(*     turn); responses are complex numbers whose shifted value resp + 1   *)
(*     has an angle that is a multiple of pi/4;                            *)
(*   - s-plane lengths are integers in units of IsCloseAtol / Scale, so    *)
(*     that numpy.isclose(x, 0) is |x| <= IsCloseAtol and                  *)
(*     linspace(0, r, 50) is exact;                                        *)
(*   - the real part of a contour point is sgn * sqrt(re2), re2 an         *)
(*     integer: the only real parts the code produces are 0 +- sqrt(q);    *)
(*   - logarithms are fixed-point numbers in units of 1 / LogUnit of a     *)
(*     decade.                                                             *)
(***************************************************************************)
EXTENDS Integers, Sequences, FiniteSets, TLC

VARIABLES
    pc,                 \* position in the function being run
    err,                \* "none", or the exception that ended the call
    \* _determine_omega_vector
    syslist, omega_in, omega_limits, omega_num, Hz, omega_out,
    omega_range_given,
    \* nyquist_plot: contour construction
    sys, indent_radius, indent_direction, omega_sys, splane_contour, prepended,
    \* nyquist_plot: encirclement count
    resp, phase, count,
    \* _default_frequency_range
    feature_periphery_decades,
    \* bode_plot, nyquist_plot, singular_values_plot: the loop over syslist
    func, idx, warn_nyquist, warned, omegas, nyquistfrqs,
    \* bode_plot: the phase of one system
    initial_phase, wrap_phase, deg, raw_phase, kwargs, phases,
    \* singular_values_plot: the singular values
    fresp, sigmas

vars == <<pc, err, syslist, omega_in, omega_limits, omega_num, Hz, omega_out,
          omega_range_given, sys, indent_radius, indent_direction, omega_sys,
          splane_contour, prepended, resp, phase, count,
          feature_periphery_decades, func, idx, warn_nyquist, warned, omegas,
          nyquistfrqs, initial_phase, wrap_phase, deg, raw_phase, kwargs,
          phases, fresp, sigmas>>

omegaVars == <<syslist, omega_in, omega_limits, omega_num, Hz, omega_out,
               omega_range_given>>
contourVars == <<sys, indent_radius, indent_direction, omega_sys,
                 splane_contour, prepended>>
countVars == <<resp, phase, count>>
rangeVars == <<feature_periphery_decades>>
sweepVars == <<func, idx, warn_nyquist, warned, omegas, nyquistfrqs>>
alignVars == <<initial_phase, wrap_phase, deg, raw_phase, kwargs, phases>>
sigmaVars == <<fresp, sigmas>>

\* The variables of the functions that a specification does not run.
RangeIdle == feature_periphery_decades = 0
SweepIdle ==
    /\ func = "" /\ idx = 0 /\ warn_nyquist = FALSE /\ warned = {}
    /\ omegas = <<>> /\ nyquistfrqs = <<>>
AlignIdle ==
    /\ initial_phase = <<>> /\ wrap_phase = <<>> /\ deg = FALSE
    /\ raw_phase = <<>> /\ kwargs = <<>> /\ phases = <<>>
SigmaIdle == fresp = <<>> /\ sigmas = <<>>

(***************************************************************************)
(* Sequence helpers                                                        *)
(***************************************************************************)
SeqsUpTo(S, lo, hi) == UNION {[1..n -> S] : n \in lo..hi}

Reverse(s) == [k \in 1..Len(s) |-> s[Len(s) + 1 - k]]

Abs(x) == IF x < 0 THEN -x ELSE x

RECURSIVE Sum(_)
Sum(s) == IF Len(s) = 0 THEN 0 ELSE s[1] + Sum(Tail(s))

(***************************************************************************)
(* Encirclement count (nyquist_plot, lines 765-773)                        *)
(***************************************************************************)

\* Bound: the longest response the count is applied to.
MaxResp == 3

\* np.pi in angle units: an angle unit is pi/4.
Pi == 4

\* The responses: resp + 1 ranges over the points of {-1,0,1}^2, whose
\* angles are exact multiples of pi/4.
RespVals == {[re |-> x - 1, im |-> y] : x \in {-1, 0, 1}, y \in {-1, 0, 1}}

\* resp + 1 (complex plus real)
AddOne(z) == [re |-> z.re + 1, im |-> z.im]

\* np.angle(z) = arctan2(z.im, z.re), in (-pi, pi], for z on the axes or
\* the diagonals; arctan2(0, 0) = 0.
Angle(z) ==
    CASE z.re > 0 /\ z.im = 0 -> 0
      [] z.re > 0 /\ z.im > 0 -> 1
      [] z.re = 0 /\ z.im > 0 -> 2
      [] z.re < 0 /\ z.im > 0 -> 3
      [] z.re < 0 /\ z.im = 0 -> Pi
      [] z.re < 0 /\ z.im < 0 -> -3
      [] z.re = 0 /\ z.im < 0 -> -2
      [] z.re > 0 /\ z.im < 0 -> -1
      [] OTHER -> 0

\* A difference of angles wrapped into (-pi, pi].
WrapDiff(d) == ((d + Pi - 1) % (2 * Pi)) - (Pi - 1)

\* ctrlutil.unwrap: successive differences are wrapped into (-pi, pi] and
\* accumulated from the first sample.
RECURSIVE unwrap(_)
unwrap(a) ==
    IF Len(a) <= 1 THEN a
    ELSE LET u == unwrap(SubSeq(a, 1, Len(a) - 1))
         IN  Append(u, u[Len(u)] + WrapDiff(a[Len(a)] - a[Len(a) - 1]))

\* np.diff
Diff(s) == [k \in 1..(Len(s) - 1) |-> s[k + 1] - s[k]]

\* A mutant of the rounding: truncation toward zero (int() without round).
RoundTowardZero(n, d) == IF n >= 0 THEN n \div d ELSE -((-n) \div d)

\* A mutant of the rounding: halves are rounded up.
RoundHalfUp(n, d) == (2 * n + d) \div (2 * d)

\* np.round(n / d, 0) for d > 0: the nearest integer, halves to the even one.
RoundHalfEven(n, d) ==
    LET q == n \div d
        r == n % d
    IN  IF 2 * r < d THEN q
        ELSE IF 2 * r > d THEN q + 1
        ELSE IF q % 2 = 0 THEN q ELSE q + 1

\* phase = -unwrap(np.angle(resp + 1))
PhaseOf(R) ==
    LET u == unwrap([k \in 1..Len(R) |-> Angle(AddOne(R[k]))])
    IN  [k \in 1..Len(u) |-> -u[k]]

\* count = int(np.round(np.sum(np.diff(phase)) / np.pi, 0))
CountOf(ph) == RoundHalfEven(Sum(Diff(ph)), Pi)

countEncirclements(R) == CountOf(PhaseOf(R))

InitCount ==
    /\ pc = "resp"
    /\ err = "none"
    /\ resp \in SeqsUpTo(RespVals, 1, MaxResp)
    /\ phase = <<>>
    /\ count = 0
    /\ syslist = <<>> /\ omega_in = <<>> /\ omega_limits = <<>>
    /\ omega_num = 0 /\ Hz = FALSE /\ omega_out = <<>>
    /\ omega_range_given = FALSE
    /\ sys = <<>> /\ indent_radius = 0 /\ indent_direction = "none"
    /\ omega_sys = <<>> /\ splane_contour = <<>> /\ prepended = FALSE
    /\ RangeIdle /\ SweepIdle /\ AlignIdle /\ SigmaIdle

\* line 769
ComputePhase ==
    /\ pc = "resp"
    /\ phase' = PhaseOf(resp)
    /\ pc' = "phase"
    /\ UNCHANGED <<err, resp, count, omegaVars, contourVars,
                   rangeVars, sweepVars, alignVars, sigmaVars>>

\* line 770
ComputeCount ==
    /\ pc = "phase"
    /\ count' = CountOf(phase)
    /\ pc' = "counted"
    /\ UNCHANGED <<err, resp, phase, omegaVars, contourVars,
                   rangeVars, sweepVars, alignVars, sigmaVars>>

NextCount == ComputePhase \/ ComputeCount

SpecCount == InitCount /\ [][NextCount]_vars

(***************************************************************************)
(* Claims about the encirclement count                                     *)
(***************************************************************************)

RespAngles == [k \in 1..Len(resp) |-> Angle(AddOne(resp[k]))]

\* C1: the count is the integer nearest to (phase[last] - phase[first]) / pi
\* (np.round: a half goes to the even neighbour), where phase is minus the
\* unwrapped angle of resp + 1: it starts at minus the first angle, agrees
\* with minus the angle modulo 2 pi at every sample and never jumps by more
\* than pi.  A constant response and a response of length 1 count 0.
C1_CountIsNearest ==
    pc = "counted" =>
        LET n == Len(resp)
            d == phase[n] - phase[1]
        IN  /\ Len(phase) = n
            /\ phase[1] = -RespAngles[1]
            /\ \A k \in 1..n : (phase[k] + RespAngles[k]) % (2 * Pi) = 0
            /\ \A k \in 1..(n - 1) : Abs(phase[k + 1] - phase[k]) <= Pi
            /\ 2 * Abs(Pi * count - d) <= Pi
            /\ (2 * Abs(Pi * count - d) = Pi => count % 2 = 0)
            /\ ((\A k \in 1..n : resp[k] = resp[1]) => count = 0)
            /\ (n = 1 => count = 0)

\* C1 witness: a response of three samples whose count is not 0.
C1_Witness == pc = "counted" /\ Len(resp) = 3 /\ Abs(count) = 2

\* Two successive samples of angle(resp + 1) differ by exactly pi.
HasHalfTurnJump(R) ==
    \E k \in 1..(Len(R) - 1) :
        Abs(Angle(AddOne(R[k + 1])) - Angle(AddOne(R[k]))) = Pi

\* C2 as stated: reversing any response negates the count, half-turn jumps
\* included.
C2_ReverseNegatesAlways ==
    pc = "counted" => countEncirclements(Reverse(resp)) = -count

\* C2 as amended: reversing a response negates the count when no two
\* successive samples of angle(resp + 1) differ by exactly pi.
C2_ReverseNegates ==
    (pc = "counted" /\ ~HasHalfTurnJump(resp))
        => countEncirclements(Reverse(resp)) = -count

\* C2 witness: a response without half-turn jump whose accumulated phase is
\* an odd multiple of pi/2 (np.round decides) and whose count is not 0.
C2_Witness ==
    /\ pc = "counted"
    /\ ~HasHalfTurnJump(resp)
    /\ Len(resp) = 3
    /\ Abs(phase[3] - phase[1]) = Pi + Pi \div 2
    /\ count # 0

(***************************************************************************)
(* Contour construction (nyquist_plot, lines 687-763)                      *)
(***************************************************************************)

\* Bounds: the longest frequency grid and the largest number of poles.
MaxLen == 3
MaxPoles == 2

\* np.linspace(0., indent_radius, 50): the number of quarter-circle points.
QuarterCirclePoints == 50

\* Lengths are stored multiplied by Scale, so that every point of
\* linspace(0, r, QuarterCirclePoints) is an integer.
Scale == QuarterCirclePoints - 1

\* np.isclose(x, 0.) is |x| <= atol (its rtol term vanishes at 0); the
\* length unit of the model is atol.
IsCloseAtol == Scale

\* The frequencies of a grid, the indent radii and the s-plane poles.
OmegaVals == {0 * Scale, 3 * Scale, 5 * Scale, 8 * Scale}
IndentRadii == {4 * Scale, 5 * Scale}
IndentDirections == {"right", "left", "none", "up"}
PoleVals ==
    {[re |-> x * Scale, im |-> 0] : x \in {-3, -1, 0, 1, 3}}
        \cup {[re |-> x * Scale, im |-> 4 * Scale] : x \in {-3, 0, 3}}

\* The strictly increasing grids of at most n frequencies.
Grids(n) ==
    {g \in SeqsUpTo(OmegaVals, 1, n) :
        \A k \in 1..(Len(g) - 1) : g[k] < g[k + 1]}

\* The systems, continuous-time and SISO: a StateSpace/TransferFunction
\* with its poles (sys.pole(), in order), or another kind of LTI system
\* (line 723: no indentation is made for it).
Systems ==
    {[sstf |-> TRUE, poles |-> ps] : ps \in SeqsUpTo(PoleVals, 0, MaxPoles)}
        \cup {[sstf |-> FALSE, poles |-> <<>>]}

\* A contour point sgn * sqrt(re2) + 1j * im.
Imag(w) == [sgn |-> 0, re2 |-> 0, im |-> w]

\* np.isclose(x, 0.)
IsClose0(x) == Abs(x) <= IsCloseAtol

\* np.isclose(abs(p), 0) for a complex p
IsCloseAbs0(p) == p.re * p.re + p.im * p.im <= IsCloseAtol * IsCloseAtol

\* abs(s - p) squared, for a point s of the imaginary axis
Dist2(s, p) == p.re * p.re + (s.im - p.im) * (s.im - p.im)

\* (np.abs(splane_poles - s)).argmin(): the first index of a least distance
RECURSIVE ArgMinFrom(_, _, _, _)
ArgMinFrom(s, poles, k, best) ==
    IF k > Len(poles) THEN best
    ELSE ArgMinFrom(s, poles, k + 1,
                    IF Dist2(s, poles[k]) < Dist2(s, poles[best])
                    THEN k ELSE best)

ArgMin(s, poles) == ArgMinFrom(s, poles, 2, 1)

\* np.linspace(a, b, n)[k - 1], k = 1..n
Linspace(a, b, n, k) == a + ((k - 1) * (b - a)) \div (n - 1)

\* splane_contour[i] +- np.sqrt(q), for a point of the imaginary axis
AddSqrt(s, sign, q) ==
    [sgn |-> IF q = 0 THEN 0 ELSE sign, re2 |-> q, im |-> s.im]

\* Mutant: the side is taken from indent_direction alone.
IndentPointByDirection(s, poles, r, dir) ==
    LET p == poles[ArgMin(s, poles)]
        q == r * r - (s.im - p.im) * (s.im - p.im)
    IN  IF Dist2(s, p) < r * r
        THEN IF dir = "right" THEN AddSqrt(s, 1, q)
             ELSE IF dir = "left" THEN AddSqrt(s, -1, q)
             ELSE s
        ELSE s

\* Mutant: the radicand forgets the imaginary part of the pole.
IndentPointNoPoleImag(s, poles, r, dir) ==
    LET p == poles[ArgMin(s, poles)]
        q == r * r - s.im * s.im
    IN  IF Dist2(s, p) < r * r
        THEN IF p.re < 0 \/ (IsClose0(p.re) /\ dir = "right")
             THEN AddSqrt(s, 1, q)
             ELSE IF p.re > 0 \/ (IsClose0(p.re) /\ dir = "left")
             THEN AddSqrt(s, -1, q)
             ELSE s
        ELSE s

\* Mutant: a point at distance exactly indent_radius is indented too.
IndentPointInclusive(s, poles, r, dir) ==
    LET p == poles[ArgMin(s, poles)]
        q == r * r - (s.im - p.im) * (s.im - p.im)
    IN  IF Dist2(s, p) <= r * r
        THEN IF p.re < 0 \/ (IsClose0(p.re) /\ dir = "right")
             THEN AddSqrt(s, 1, q)
             ELSE IF p.re > 0 \/ (IsClose0(p.re) /\ dir = "left")
             THEN AddSqrt(s, -1, q)
             ELSE s
        ELSE s

\* Mutant: a point within twice indent_radius is indented.
IndentPointWide(s, poles, r, dir) ==
    LET p == poles[ArgMin(s, poles)]
        q == r * r - (s.im - p.im) * (s.im - p.im)
    IN  IF Dist2(s, p) < 4 * r * r
        THEN IF p.re < 0 \/ (IsClose0(p.re) /\ dir = "right")
             THEN AddSqrt(s, 1, q)
             ELSE IF p.re > 0 \/ (IsClose0(p.re) /\ dir = "left")
             THEN AddSqrt(s, -1, q)
             ELSE s
        ELSE s

\* One iteration of the loop of lines 741-757 on the point s; poles is
\* not empty.  The last branch builds a ValueError and does not raise it.
IndentPoint(s, poles, r, dir) ==
    LET p == poles[ArgMin(s, poles)]
        q == r * r - (s.im - p.im) * (s.im - p.im)
    IN  IF Dist2(s, p) < r * r
        THEN IF p.re < 0 \/ (IsClose0(p.re) /\ dir = "right")
             THEN AddSqrt(s, 1, q)
             ELSE IF p.re > 0 \/ (IsClose0(p.re) /\ dir = "left")
             THEN AddSqrt(s, -1, q)
             ELSE s
        ELSE s

\* The condition of lines 734-736, for a contour of at least two points.
NeedsQuarterCircle(contour, poles, r, given) ==
    /\ contour[2].im > r
    /\ \E k \in 1..Len(poles) : IsCloseAbs0(poles[k])
    /\ ~given

\* lines 738-740
QuarterCircle(contour, r) ==
    [k \in 1..QuarterCirclePoints |->
        Imag(Linspace(0, r, QuarterCirclePoints, k))] \o Tail(contour)

InitContour ==
    /\ pc = "omega"
    /\ err = "none"
    /\ omega_out \in Grids(MaxLen)
    /\ omega_range_given \in BOOLEAN
    /\ sys \in Systems
    /\ indent_radius \in IndentRadii
    /\ indent_direction \in IndentDirections
    /\ omega_sys = <<>>
    /\ splane_contour = <<>>
    /\ prepended = FALSE
    /\ syslist = <<>> /\ omega_in = <<>> /\ omega_limits = <<>>
    /\ omega_num = 0 /\ Hz = FALSE
    /\ resp = <<>> /\ phase = <<>> /\ count = 0
    /\ RangeIdle /\ SweepIdle /\ AlignIdle /\ SigmaIdle

\* lines 689-691: an automatically selected grid starts at frequency 0
StartAtZero ==
    /\ pc = "omega"
    /\ omega_out' = IF omega_range_given THEN omega_out
                    ELSE [omega_out EXCEPT ![1] = 0]
    /\ pc' = "sys"
    /\ UNCHANGED <<err, syslist, omega_in, omega_limits, omega_num, Hz,
                   omega_range_given, contourVars, countVars,
                   rangeVars, sweepVars, alignVars, sigmaVars>>

\* lines 702-724: the contour along the imaginary axis
BuildSplane ==
    /\ pc = "sys"
    /\ omega_sys' = omega_out
    /\ splane_contour' = [k \in 1..Len(omega_out) |-> Imag(omega_out[k])]
    /\ pc' = IF sys.sstf /\ indent_direction # "none"
             THEN "poles" ELSE "contour"
    /\ UNCHANGED <<err, omegaVars, sys, indent_radius, indent_direction,
                   prepended, countVars,
                   rangeVars, sweepVars, alignVars, sigmaVars>>

\* lines 734-740: splane_contour[1] is read first, and does not exist in a
\* contour of one point
AddQuarterCircle ==
    /\ pc = "poles"
    /\ IF Len(splane_contour) < 2
       THEN /\ err' = "IndexError"
            /\ pc' = "failed"
            /\ UNCHANGED <<splane_contour, prepended>>
       ELSE /\ prepended' = NeedsQuarterCircle(
                   splane_contour, sys.poles, indent_radius,
                   omega_range_given)
            /\ splane_contour' =
                   IF prepended'
                   THEN QuarterCircle(splane_contour, indent_radius)
                   ELSE splane_contour
            /\ pc' = "loop"
            /\ UNCHANGED err
    /\ UNCHANGED <<omegaVars, sys, indent_radius, indent_direction,
                   omega_sys, countVars,
                   rangeVars, sweepVars, alignVars, sigmaVars>>

\* lines 741-757: argmin of an empty array of poles raises ValueError
Indent ==
    /\ pc = "loop"
    /\ IF Len(sys.poles) = 0
       THEN /\ err' = "ValueError"
            /\ pc' = "failed"
            /\ UNCHANGED splane_contour
       ELSE /\ splane_contour' =
                   [k \in 1..Len(splane_contour) |->
                       IndentPoint(splane_contour[k], sys.poles,
                                   indent_radius, indent_direction)]
            /\ pc' = "contour"
            /\ UNCHANGED err
    /\ UNCHANGED <<omegaVars, sys, indent_radius, indent_direction,
                   omega_sys, prepended, countVars,
                   rangeVars, sweepVars, alignVars, sigmaVars>>

NextContour == StartAtZero \/ BuildSplane \/ AddQuarterCircle \/ Indent

SpecContour == InitContour /\ [][NextContour]_vars

(***************************************************************************)
(* Claims about the contour                                                *)
(***************************************************************************)

\* The call ended with a contour / the indentation loop made it.
ContourDone == pc = "contour" /\ err = "none"
LoopRan == ContourDone /\ sys.sstf /\ indent_direction # "none"

\* The imaginary part of the j-th point before the loop: a grid frequency,
\* or a point of the quarter circle's linspace.
PreLen == Len(omega_sys) + (IF prepended THEN QuarterCirclePoints - 1 ELSE 0)
PreIm(j) ==
    IF ~prepended THEN omega_sys[j]
    ELSE IF j <= QuarterCirclePoints
         THEN ((j - 1) * indent_radius) \div (QuarterCirclePoints - 1)
         ELSE omega_sys[j - (QuarterCirclePoints - 1)]

\* The squared distance of 1j * w to the pole p, and the nearest pole of
\* 1j * w: the first pole among those at the least distance.
SqDist(w, p) == p.re * p.re + (w - p.im) * (w - p.im)
NearestPole(w) ==
    LET ps == sys.poles
        i == CHOOSE i \in 1..Len(ps) :
                 \A j \in 1..Len(ps) :
                     /\ SqDist(w, ps[i]) <= SqDist(w, ps[j])
                     /\ (j < i => SqDist(w, ps[i]) < SqDist(w, ps[j]))
    IN  ps[i]
Near(w) == SqDist(w, NearestPole(w)) < indent_radius * indent_radius
Radicand(w) ==
    indent_radius * indent_radius
        - (w - NearestPole(w).im) * (w - NearestPole(w).im)

\* C3: a point within indent_radius of its nearest pole, that pole stable
\* (Re < 0), has its real part increased by sqrt(r^2 - Im(s - p)^2), for
\* indent_direction right and left alike.
C3_StablePoleIndentsRight ==
    (LoopRan /\ indent_direction \in {"right", "left"}) =>
        \A j \in 1..Len(splane_contour) :
            (NearestPole(PreIm(j)).re < 0 /\ Near(PreIm(j))) =>
                /\ Radicand(PreIm(j)) > 0
                /\ splane_contour[j] =
                       [sgn |-> 1, re2 |-> Radicand(PreIm(j)),
                        im |-> PreIm(j)]

\* C3 witness: with indent_direction left, a point near a stable pole off
\* the real axis of the pole (Im(s - p) # 0) went right.
C3_Witness ==
    /\ LoopRan /\ indent_direction = "left"
    /\ \E j \in 1..Len(splane_contour) :
           /\ NearestPole(PreIm(j)).re < 0 /\ Near(PreIm(j))
           /\ PreIm(j) # NearestPole(PreIm(j)).im
           /\ splane_contour[j].sgn = 1

\* C4 as stated: a point within indent_radius of its nearest pole, that
\* pole unstable (Re > 0, however small), has its real part decreased by
\* sqrt(r^2 - Im(s - p)^2), for indent_direction right and left alike.
C4_UnstablePoleIndentsLeft ==
    (LoopRan /\ indent_direction \in {"right", "left"}) =>
        \A j \in 1..Len(splane_contour) :
            (NearestPole(PreIm(j)).re > 0 /\ Near(PreIm(j))) =>
                splane_contour[j] =
                    [sgn |-> -1, re2 |-> Radicand(PreIm(j)),
                     im |-> PreIm(j)]

\* C5: a point within indent_radius of its nearest pole, that pole exactly
\* on the imaginary axis, goes right for indent_direction right and left
\* for left, and ends at distance exactly indent_radius from the pole.
C5_AxisPoleFollowsDirection ==
    (LoopRan /\ indent_direction \in {"right", "left"}) =>
        \A j \in 1..Len(splane_contour) :
            LET p == NearestPole(PreIm(j))
                s == splane_contour[j]
            IN  (p.re = 0 /\ Near(PreIm(j))) =>
                    /\ s.sgn = (IF indent_direction = "right" THEN 1 ELSE -1)
                    /\ s.im = PreIm(j)
                    /\ s.re2 + (s.im - p.im) * (s.im - p.im)
                           = indent_radius * indent_radius

\* C5 witness: with indent_direction left, a point near a pole of the
\* axis, not at the height of the pole, went left.
C5_Witness ==
    /\ LoopRan /\ indent_direction = "left"
    /\ \E j \in 1..Len(splane_contour) :
           /\ NearestPole(PreIm(j)).re = 0 /\ Near(PreIm(j))
           /\ PreIm(j) # NearestPole(PreIm(j)).im
           /\ splane_contour[j].sgn = -1

\* C6 as stated: with an indent_direction that is none of right, left and
\* none, a point within indent_radius of a nearest pole of the imaginary
\* axis makes the call fail: it does not end with a contour.
C6_UnknownDirectionFails ==
    (sys.sstf /\ indent_direction \notin {"right", "left", "none"}
        /\ pc = "contour") =>
        ~ \E j \in 1..Len(splane_contour) :
              NearestPole(PreIm(j)).re = 0 /\ Near(PreIm(j))

\* C7: the loop changes no imaginary part and not the number of points;
\* a point whose nearest pole is at distance >= indent_radius, and every
\* point when there is no indentation, is 1j times its frequency; the
\* points stay in increasing order of frequency.
C7_IndentationIsLocal ==
    ContourDone =>
        /\ Len(splane_contour) = PreLen
        /\ \A j \in 1..Len(splane_contour) :
               /\ splane_contour[j].im = PreIm(j)
               /\ (~LoopRan \/ ~Near(PreIm(j)))
                      => splane_contour[j] = Imag(PreIm(j))
        /\ ~LoopRan =>
               splane_contour = [k \in 1..Len(omega_sys) |->
                                    Imag(omega_sys[k])]
        /\ \A j \in 1..(Len(splane_contour) - 1) :
               splane_contour[j].im < splane_contour[j + 1].im

\* C7 witness: the loop moved one point and left alone another one, whose
\* nearest pole is at distance exactly indent_radius.
C7_Witness ==
    /\ LoopRan
    /\ \E j, k \in 1..Len(splane_contour) :
           /\ splane_contour[j].sgn # 0
           /\ SqDist(PreIm(k), NearestPole(PreIm(k)))
                  = indent_radius * indent_radius
           /\ NearestPole(PreIm(k)).re # 0
           /\ splane_contour[k] = Imag(omega_sys[k])

\* The three parts of C8.  When: the indentation is made, the range is
\* automatic, a pole is (numerically) at the origin and the second point
\* is above indent_radius.
C8_When ==
    /\ sys.sstf /\ indent_direction # "none"
    /\ ~omega_range_given
    /\ \E k \in 1..Len(sys.poles) :
           sys.poles[k].re * sys.poles[k].re
               + sys.poles[k].im * sys.poles[k].im
                   <= IsCloseAtol * IsCloseAtol
    /\ Len(omega_sys) >= 2 /\ omega_sys[2] > indent_radius

\* Shape: 50 points evenly spaced from 0 to indent_radius replace the
\* first point.
C8_Shape ==
    /\ Len(splane_contour) = Len(omega_sys) + 49
    /\ \A k \in 1..50 :
           49 * splane_contour[k].im = (k - 1) * indent_radius
    /\ \A k \in 51..Len(splane_contour) :
           splane_contour[k].im = omega_sys[k - 49]

\* Circle: when the pole at the origin is the nearest pole of each of the
\* 50 points, all of them are at distance indent_radius from the origin.
C8_Circle ==
    (\A k \in 1..50 :
        NearestPole(splane_contour[k].im) = [re |-> 0, im |-> 0]) =>
        \A k \in 1..50 :
            splane_contour[k].re2
                + splane_contour[k].im * splane_contour[k].im
                    = indent_radius * indent_radius

\* C8 as stated: the quarter circle is added exactly in the case C8_When,
\* with that shape, and its points end on the circle.
C8_QuarterCircle ==
    ContourDone =>
        IF C8_When THEN C8_Shape /\ C8_Circle
        ELSE Len(splane_contour) = Len(omega_sys)

\* C8 for the directions the loop knows: it holds there.
C8_QuarterCircleRightLeft ==
    (ContourDone /\ indent_direction \in {"right", "left", "none"}) =>
        IF C8_When THEN C8_Shape /\ C8_Circle
        ELSE Len(splane_contour) = Len(omega_sys)

(***************************************************************************)
(* The frequency grid (_determine_omega_vector, lines 1213-1272, and       *)
(* _default_frequency_range, lines 1276-1389, for continuous-time systems) *)
(*                                                                         *)
(* Frequencies given by the caller are integers (rad/s).  A sample of a    *)
(* log-spaced grid is the record [num, den, l2pi], the frequency           *)
(* 10 ^ (num / den + l2pi * log10(2 pi)).                                  *)
(***************************************************************************)

\* Bounds: the longest omega, the longest omega_limits, the largest
\* omega_num and the longest list of systems.
MaxIn == 2
MaxLimits == 3
MaxNum == 3
MaxSys == 1

\* config.defaults['freqplot.feature_periphery_decades']
FeaturePeripheryDecades == 1

\* np.log10(2. * math.pi) = 0.79818..., to five places; it is irrational,
\* so that rounding a lattice value shifted by it never meets a tie.
Log10TwoPiNum == 79818
Log10TwoPiDen == 100000

\* An optional argument: None, or a value.
None == [some |-> FALSE, val |-> <<>>]
Some(v) == [some |-> TRUE, val |-> v]

OmegaInVals == {0, 10}
LimitVals == {1, 100}

\* Continuous-time systems (dt = 0), by their real poles and zeros (rad/s).
SysVals ==
    { [dt |-> 0, pole |-> <<-1, -1000>>, zero |-> <<>>],
      [dt |-> 0, pole |-> <<0>>, zero |-> <<>>],
      [dt |-> 0, pole |-> <<0, -10>>, zero |-> <<-1>>],
      [dt |-> 0, pole |-> <<>>, zero |-> <<>>] }

\* np.log10 of a power of ten
RECURSIVE Log10(_)
Log10(x) == IF x < 10 THEN 0 ELSE 1 + Log10(x \div 10)

\* Logarithms that are not integers are kept to five places, in units of
\* 1 / LogUnit of a decade.  The values below are irrational and none is
\* within 0.002 of a half, so that rounding and comparing them is exact.
LogUnit == Log10TwoPiDen
Log10Of2 == 30103
Log10Of5 == 69897
\* np.log10(0.9 * math.pi) = 0.45139...
Log10OfNineTenthsPi == 45139

\* np.log10(x) in units of 1 / LogUnit, for x = m * 10 ^ k, m in {1, 2, 5}
RECURSIVE Log10Fixed(_)
Log10Fixed(x) ==
    IF x >= 10 THEN LogUnit + Log10Fixed(x \div 10)
    ELSE CASE x = 1 -> 0
           [] x = 2 -> Log10Of2
           [] x = 5 -> Log10Of5

\* A pole or zero of a discrete-time system, in the z-plane: imag0 is
\* np.isclose(z.imag, 0.); real tells z.real <= 0 ("nonpos"),
\* abs(z.real - 1) < 1e-10 ("one") or neither ("other"); mag is
\* abs(log(z) / (1j * dt)) in rad/s.
ZOrigin == [imag0 |-> TRUE, real |-> "nonpos", mag |-> 0]
ZOne == [imag0 |-> TRUE, real |-> "one", mag |-> 0]
ZReal(m) == [imag0 |-> TRUE, real |-> "other", mag |-> m]
ZComplex(m) == [imag0 |-> FALSE, real |-> "nonpos", mag |-> m]

\* The systems of _default_frequency_range.  dt = 0: continuous time, with
\* real poles and zeros (rad/s); dt > 0: discrete time, dt in hundredths of
\* a second, with z-plane poles and zeros; dt = -1: dt is True (no
\* timebase), which is neither isctime() nor isdtime(strict=True).
RangeSysVals ==
    { [dt |-> 0, pole |-> <<-1, -1000>>, zero |-> <<>>],
      [dt |-> 0, pole |-> <<-2, 0>>, zero |-> <<-5>>],
      [dt |-> 0, pole |-> <<0>>, zero |-> <<>>],
      [dt |-> 1, pole |-> <<ZOrigin>>, zero |-> <<>>],
      [dt |-> 100, pole |-> <<ZOne, ZReal(2)>>, zero |-> <<ZComplex(50)>>],
      [dt |-> 100, pole |-> <<ZOrigin>>, zero |-> <<ZOne>>],
      [dt |-> -1, pole |-> <<-1000>>, zero |-> <<>>] }

\* feature_periphery_decades, in units of 1 / LogUnit of a decade
PeripheryVals == {0, LogUnit \div 2, LogUnit, 2 * LogUnit}

\* Mutants of the rounding of the decade bounds: down, and up.
RintFloor(x, hz) == (x - (IF hz THEN Log10TwoPiNum ELSE 0)) \div LogUnit

RintCeil(x, hz) == -((-(x - (IF hz THEN Log10TwoPiNum ELSE 0))) \div LogUnit)

\* np.rint(x / LogUnit - hz * log10(2 pi)): lines 1367-1371, the features
\* are divided by 2 pi when Hz is set, before np.log10
Rint(x, hz) == RoundHalfEven(x - (IF hz THEN Log10TwoPiNum ELSE 0), LogUnit)

\* np.logspace(a + l * log10(2 pi), b + l * log10(2 pi), num = n,
\* endpoint = True): np.linspace gives start + k * (stop - start) / (n - 1)
\* for n > 1, and start alone for n = 1.
Logspace(a, b, n, l) ==
    IF n = 1 THEN <<[num |-> a, den |-> 1, l2pi |-> l]>>
    ELSE [k \in 1..n |->
             [num |-> a * (n - 1) + (k - 1) * (b - a), den |-> n - 1,
              l2pi |-> l]]

\* lines 1348-1350
ToReplace(z) == z.imag0 /\ (z.real = "nonpos" \/ z.real = "one")

\* Mutant: the poles and zeros at the origin are kept.
RECURSIVE FeaturesWithOrigin(_)
FeaturesWithOrigin(systems) ==
    IF Len(systems) = 0 THEN <<>>
    ELSE LET sy == systems[Len(systems)]
             pz == sy.pole \o sy.zero
             f == IF sy.dt = 0
                  THEN [k \in 1..Len(pz) |-> Abs(pz[k])]
                  ELSE IF sy.dt > 0
                  THEN [k \in 1..Len(pz) |-> pz[k].mag]
                  ELSE <<>>
         IN  FeaturesWithOrigin(SubSeq(systems, 1, Len(systems) - 1)) \o f

\* lines 1328-1361: the features of the systems.  Continuous time: the
\* magnitudes of the poles and zeros that are not close to 0; discrete
\* time: abs(log(z) / (1j * dt)) of those that are not on the real axis at
\* or left of the origin, or at 1; any other system raises
\* NotImplementedError, which is caught, and adds nothing.
RECURSIVE Features(_)
Features(systems) ==
    IF Len(systems) = 0 THEN <<>>
    ELSE LET sy == systems[Len(systems)]
             pz == sy.pole \o sy.zero
             f == IF sy.dt = 0
                  THEN SelectSeq([k \in 1..Len(pz) |-> Abs(pz[k])],
                                 LAMBDA x : x # 0)
                  ELSE IF sy.dt > 0
                  THEN LET kept == SelectSeq(pz, LAMBDA z : ~ToReplace(z))
                       IN  [k \in 1..Len(kept) |-> kept[k].mag]
                  ELSE <<>>
         IN  Features(SubSeq(systems, 1, Len(systems) - 1)) \o f

\* Mutant: the Nyquist frequencies of the systems are left out.
FreqInterestingNone(systems) == <<>>

\* lines 1339-1341: np.log10 of the frequencies 0.9 * pi / dt of the
\* discrete-time systems (dt in hundredths of a second)
RECURSIVE FreqInteresting(_)
FreqInteresting(systems) ==
    IF Len(systems) = 0 THEN <<>>
    ELSE LET sy == systems[Len(systems)]
         IN  FreqInteresting(SubSeq(systems, 1, Len(systems) - 1))
                 \o (IF sy.dt > 0
                     THEN <<Log10OfNineTenthsPi
                                - (Log10(sy.dt) - 2) * LogUnit>>
                     ELSE <<>>)

SeqMin(s) == CHOOSE x \in {s[k] : k \in 1..Len(s)} :
                 \A k \in 1..Len(s) : x <= s[k]
SeqMax(s) == CHOOSE x \in {s[k] : k \in 1..Len(s)} :
                 \A k \in 1..Len(s) : x >= s[k]

\* A sample that is not a finite positive number (0, inf or nan): the
\* samples of np.logspace with an infinite lsp_min or lsp_max.
NotANumber == [num |-> 0, den |-> 0, l2pi |-> 0]

\* np.logspace(a / LogUnit, b / LogUnit, num = n, endpoint = True)
LogspaceFixed(a, b, n) ==
    LET g == Logspace(a, b, n, 0)
    IN  [k \in 1..n |-> [g[k] EXCEPT !.den = @ * LogUnit]]

\* _default_frequency_range(syslist, Hz = hz, number_of_samples = n,
\* feature_periphery_decades = periphery / LogUnit), lines 1363-1389;
\* np.log10(0.) is -inf
DefaultFrequencyRangeOf(systems, hz, n, periphery) ==
    LET found == Features(systems)
        features == IF Len(found) = 0 THEN <<1>> ELSE found
        fi == FreqInteresting(systems)
        shift == IF hz THEN Log10TwoPiNum ELSE 0
    IN  IF \E k \in 1..Len(features) : features[k] = 0
        THEN [k \in 1..n |-> NotANumber]
        ELSE LET logs == [k \in 1..Len(features) |->
                              Log10Fixed(features[k])]
                 lo == Rint(SeqMin(logs) - periphery, hz) * LogUnit
                           + shift
                 hi == Rint(SeqMax(logs) + periphery, hz) * LogUnit
                           + shift
                 lsp_min == IF Len(fi) > 0 /\ SeqMin(fi) < lo
                            THEN SeqMin(fi) ELSE lo
                 lsp_max == IF Len(fi) > 0 /\ SeqMax(fi) > hi
                            THEN SeqMax(fi) ELSE hi
             IN  LogspaceFixed(lsp_min, lsp_max, n)

\* _default_frequency_range(syslist, number_of_samples = n, Hz = hz), with
\* the feature_periphery_decades of config.defaults
DefaultFrequencyRange(systems, hz, n) ==
    DefaultFrequencyRangeOf(systems, hz, n, FeaturePeripheryDecades * LogUnit)

Raised(e) == [err |-> e, omega_out |-> <<>>, omega_range_given |-> FALSE]
Returned(out, given) ==
    [err |-> "none", omega_out |-> out, omega_range_given |-> given]

\* Mutant: omega_limits is looked at before omega_in.
OmegaVectorLimitsFirst(systems, om, limits, n, hz) ==
    IF limits.some
    THEN IF Len(limits.val) # 2 THEN Raised("ValueError")
         ELSE Returned(Logspace(Log10(limits.val[1]), Log10(limits.val[2]),
                                n, 0), TRUE)
    ELSE IF om.some THEN Returned(om.val, TRUE)
    ELSE Returned(DefaultFrequencyRange(systems, hz, n), FALSE)

\* Mutant: only the first two values of a longer omega_limits are used.
OmegaVectorLongLimits(systems, om, limits, n, hz) ==
    IF ~om.some
    THEN IF ~limits.some
         THEN Returned(DefaultFrequencyRange(systems, hz, n), FALSE)
         ELSE IF Len(limits.val) < 2 THEN Raised("ValueError")
         ELSE Returned(Logspace(Log10(limits.val[1]), Log10(limits.val[2]),
                                n, 0), TRUE)
    ELSE Returned(om.val, TRUE)

\* _determine_omega_vector(syslist, omega_in, omega_limits, omega_num, Hz)
OmegaVector(systems, om, limits, n, hz) ==
    IF ~om.some
    THEN IF ~limits.some
         THEN Returned(DefaultFrequencyRange(systems, hz, n), FALSE)
         ELSE IF Len(limits.val) # 2 THEN Raised("ValueError")
         ELSE Returned(Logspace(Log10(limits.val[1]), Log10(limits.val[2]),
                                n, 0), TRUE)
    ELSE Returned(om.val, TRUE)

InitOmega ==
    /\ pc = "call"
    /\ err = "none"
    /\ syslist \in SeqsUpTo(SysVals, 1, MaxSys)
    /\ omega_in \in
           {None} \cup {Some(v) : v \in SeqsUpTo(OmegaInVals, 1, MaxIn)}
    /\ omega_limits \in
           {None} \cup {Some(v) : v \in SeqsUpTo(LimitVals, 0, MaxLimits)}
    /\ omega_num \in 1..MaxNum
    /\ Hz \in BOOLEAN
    /\ omega_out = <<>>
    /\ omega_range_given = FALSE
    /\ sys = <<>> /\ indent_radius = 0 /\ indent_direction = "none"
    /\ omega_sys = <<>> /\ splane_contour = <<>> /\ prepended = FALSE
    /\ resp = <<>> /\ phase = <<>> /\ count = 0
    /\ RangeIdle /\ SweepIdle /\ AlignIdle /\ SigmaIdle

DetermineOmegaVector ==
    /\ pc = "call"
    /\ LET res == OmegaVector(syslist, omega_in, omega_limits, omega_num, Hz)
       IN  /\ err' = res.err
           /\ omega_out' = res.omega_out
           /\ omega_range_given' = res.omega_range_given
           /\ pc' = IF res.err = "none" THEN "returned" ELSE "failed"
    /\ UNCHANGED <<syslist, omega_in, omega_limits, omega_num, Hz,
                   contourVars, countVars,
                   rangeVars, sweepVars, alignVars, sigmaVars>>

NextOmega == DetermineOmegaVector

SpecOmega == InitOmega /\ [][NextOmega]_vars

(***************************************************************************)
(* Claims about the frequency grid                                         *)
(***************************************************************************)

\* C9: with an omega the grid returned is equal to it, element by element,
\* the range counts as given and omega_limits is ignored, whatever its
\* length; without omega and with two limits the range counts as given;
\* a returned range does not count as given exactly when omega and
\* omega_limits are both absent.
C9_OmegaCopiedThrough ==
    pc # "call" =>
        /\ omega_in.some =>
               /\ pc = "returned"
               /\ Len(omega_out) = Len(omega_in.val)
               /\ \A k \in 1..Len(omega_out) : omega_out[k] = omega_in.val[k]
               /\ omega_range_given
        /\ (~omega_in.some /\ omega_limits.some /\ Len(omega_limits.val) = 2)
               => (pc = "returned" /\ omega_range_given)
        /\ pc = "returned" =>
               (~omega_range_given <=> (~omega_in.some /\ ~omega_limits.some))

\* C9 witness: an omega of two frequencies came back although omega_limits
\* had three elements.
C9_Witness ==
    /\ pc = "returned"
    /\ omega_in.some /\ Len(omega_out) = 2
    /\ omega_limits.some /\ Len(omega_limits.val) = 3

\* 10 ^ e for an integer e >= 0
RECURSIVE Pow10(_)
Pow10(e) == IF e = 0 THEN 1 ELSE 10 * Pow10(e - 1)

\* The sample w of a log-spaced grid is the frequency x.
SampleIs(w, x) ==
    /\ w.l2pi = 0
    /\ w.num % w.den = 0
    /\ w.num \div w.den >= 0
    /\ Pow10(w.num \div w.den) = x

\* The exponents of the grid g are evenly spaced.
LogSpaced(g) ==
    \A k \in 2..(Len(g) - 1) :
        /\ g[k].den = g[1].den
        /\ g[k + 1].num - g[k].num = g[2].num - g[1].num

LimitsOnly == ~omega_in.some /\ omega_limits.some

\* C10 as stated: without omega, an omega_limits of a length other than 2
\* fails with ValueError and gives no grid; one of two elements [lo, hi]
\* gives omega_num log-spaced samples, the first lo and the last hi.
C10_LimitsGridEndsAtHi ==
    (pc # "call" /\ LimitsOnly) =>
        IF Len(omega_limits.val) # 2
        THEN pc = "failed" /\ err = "ValueError" /\ omega_out = <<>>
        ELSE /\ pc = "returned"
             /\ Len(omega_out) = omega_num
             /\ LogSpaced(omega_out)
             /\ SampleIs(omega_out[1], omega_limits.val[1])
             /\ SampleIs(omega_out[Len(omega_out)], omega_limits.val[2])

\* C10 as amended: the last sample is hi when omega_num >= 2; a grid of one
\* sample is lo alone.
C10_LimitsGrid ==
    (pc # "call" /\ LimitsOnly) =>
        IF Len(omega_limits.val) # 2
        THEN pc = "failed" /\ err = "ValueError" /\ omega_out = <<>>
        ELSE /\ pc = "returned"
             /\ Len(omega_out) = omega_num
             /\ LogSpaced(omega_out)
             /\ SampleIs(omega_out[1], omega_limits.val[1])
             /\ omega_num >= 2 =>
                    SampleIs(omega_out[Len(omega_out)], omega_limits.val[2])

\* C10 witness: a grid of three samples from 1 to 100 rad/s.
C10_Witness ==
    /\ pc = "returned" /\ LimitsOnly
    /\ omega_limits.val = <<1, 100>>
    /\ Len(omega_out) = 3
    /\ SampleIs(omega_out[2], 10)

\* C10 witness of the failure: three limits, no grid.
C10_WitnessFailure ==
    /\ pc = "failed" /\ LimitsOnly
    /\ Len(omega_limits.val) = 3

\* The sample w of a log-spaced grid is the frequency 2 pi x.
SampleIsTwoPiTimes(w, x) ==
    /\ w.l2pi = 1
    /\ w.num % w.den = 0
    /\ w.num \div w.den >= 0
    /\ Pow10(w.num \div w.den) = x

\* C11: the two values of omega_limits are in Hz when Hz is True, and the
\* grid runs from 2 pi lo to 2 pi hi rad/s; they are in rad/s when Hz is
\* False, and the grid runs from lo to hi.
C11_LimitsInHz ==
    (pc = "returned" /\ LimitsOnly /\ omega_num >= 2) =>
        IF Hz
        THEN /\ SampleIsTwoPiTimes(omega_out[1], omega_limits.val[1])
             /\ SampleIsTwoPiTimes(omega_out[Len(omega_out)],
                                   omega_limits.val[2])
        ELSE /\ SampleIs(omega_out[1], omega_limits.val[1])
             /\ SampleIs(omega_out[Len(omega_out)], omega_limits.val[2])

\* C11, the part that holds: with Hz False the grid runs from lo to hi.
C11_LimitsInRadPerSec ==
    (pc = "returned" /\ LimitsOnly /\ omega_num >= 2 /\ ~Hz) =>
        /\ SampleIs(omega_out[1], omega_limits.val[1])
        /\ SampleIs(omega_out[Len(omega_out)], omega_limits.val[2])

(***************************************************************************)
(* _default_frequency_range (lines 1276-1389)                              *)
(*                                                                         *)
(* The exponents of the grid are kept in units of 1 / LogUnit of a decade: *)
(* a sample [num, den, 0] is the frequency 10 ^ (num / den), and its den   *)
(* is a multiple of LogUnit.                                               *)
(***************************************************************************)

\* Bound: the longest list of systems of _default_frequency_range.
MaxFeatSys == 2

InitRange ==
    /\ pc = "call"
    /\ err = "none"
    /\ syslist \in SeqsUpTo(RangeSysVals, 1, MaxFeatSys)
    /\ Hz \in BOOLEAN
    /\ omega_num \in 1..MaxNum
    /\ feature_periphery_decades \in PeripheryVals
    /\ omega_out = <<>>
    /\ omega_in = <<>> /\ omega_limits = <<>> /\ omega_range_given = FALSE
    /\ sys = <<>> /\ indent_radius = 0 /\ indent_direction = "none"
    /\ omega_sys = <<>> /\ splane_contour = <<>> /\ prepended = FALSE
    /\ resp = <<>> /\ phase = <<>> /\ count = 0
    /\ SweepIdle /\ AlignIdle /\ SigmaIdle

\* lines 1314-1389
DefaultFrequencyRangeCall ==
    /\ pc = "call"
    /\ omega_out' = DefaultFrequencyRangeOf(syslist, Hz, omega_num,
                                            feature_periphery_decades)
    /\ pc' = "returned"
    /\ UNCHANGED <<err, syslist, omega_in, omega_limits, omega_num, Hz,
                   omega_range_given, contourVars, countVars,
                   rangeVars, sweepVars, alignVars, sigmaVars>>

NextRange == DefaultFrequencyRangeCall

SpecRange == InitRange /\ [][NextRange]_vars

(***************************************************************************)
(* Claims about the automatic range                                        *)
(***************************************************************************)

\* The exponent of the sample w, as the fraction ExpNum(w) / ExpDen(w) of
\* units of 1 / LogUnit of a decade.
ExpNum(w) == w.num
ExpDen(w) == w.den \div LogUnit

\* The sample w is 10 ^ a for the integer a.
IsDecade(w, a) == w.den > 0 /\ ExpNum(w) = a * LogUnit * ExpDen(w)

\* The integer a is the one nearest to x / LogUnit, the even one of the two
\* when x / LogUnit is halfway between two integers.
NearestInt(a, x) ==
    /\ 2 * Abs(a * LogUnit - x) <= LogUnit
    /\ 2 * Abs(a * LogUnit - x) = LogUnit => a % 2 = 0

AllContinuous == \A k \in 1..Len(syslist) : syslist[k].dt = 0

\* The magnitudes of the poles and zeros of continuous-time systems that
\* are not zero, and their logarithms.
PoleZeroMagnitudes ==
    {Abs(x) : x \in UNION {{(syslist[k].pole \o syslist[k].zero)[j] :
                               j \in 1..Len(syslist[k].pole \o syslist[k].zero)} :
                           k \in 1..Len(syslist)}} \ {0}
PoleZeroLogs == {Log10Fixed(m) : m \in PoleZeroMagnitudes}
MinLog == CHOOSE x \in PoleZeroLogs : \A y \in PoleZeroLogs : x <= y
MaxLog == CHOOSE x \in PoleZeroLogs : \A y \in PoleZeroLogs : x >= y

C12_Case ==
    /\ pc = "returned" /\ AllContinuous /\ ~Hz
    /\ PoleZeroMagnitudes # {}

\* C12 as stated: over continuous-time systems with Hz off, the automatic
\* grid runs from 10 ^ round(min(log10 features) - periphery) to
\* 10 ^ round(max(log10 features) + periphery), the features being the
\* magnitudes of the poles and zeros that are not zero.
C12_GridRunsToUpperDecade ==
    C12_Case =>
        \E a, b \in -4..6 :
            /\ NearestInt(a, MinLog - feature_periphery_decades)
            /\ NearestInt(b, MaxLog + feature_periphery_decades)
            /\ IsDecade(omega_out[1], a)
            /\ IsDecade(omega_out[Len(omega_out)], b)

\* C12 as amended: the grid starts at the lower decade and, with two
\* samples or more, ends at the upper decade; one sample is the lower
\* decade alone.
C12_GridDecades ==
    C12_Case =>
        \E a, b \in -4..6 :
            /\ NearestInt(a, MinLog - feature_periphery_decades)
            /\ NearestInt(b, MaxLog + feature_periphery_decades)
            /\ IsDecade(omega_out[1], a)
            /\ omega_num >= 2 => IsDecade(omega_out[Len(omega_out)], b)
            /\ omega_num = 1 => Len(omega_out) = 1

\* C12 witness: poles at -1 and -1000 rad/s with a periphery of one decade
\* give the decades -1 and 4.
C12_Witness ==
    /\ pc = "returned" /\ ~Hz
    /\ syslist = <<[dt |-> 0, pole |-> <<-1, -1000>>, zero |-> <<>>]>>
    /\ feature_periphery_decades = LogUnit
    /\ omega_num = 2
    /\ IsDecade(omega_out[1], -1) /\ IsDecade(omega_out[2], 4)

\* C12 witness of the rounding: features 2 and 5 rad/s with a periphery of
\* one decade give the decades -1 (from -0.69897) and 2 (from 1.69897).
C12_WitnessRounded ==
    /\ pc = "returned" /\ ~Hz
    /\ syslist = <<[dt |-> 0, pole |-> <<-2, 0>>, zero |-> <<-5>>]>>
    /\ feature_periphery_decades = LogUnit
    /\ omega_num = 3
    /\ IsDecade(omega_out[1], -1) /\ IsDecade(omega_out[3], 2)

\* np.log10 of the features found by _default_frequency_range.
FeatureLogs ==
    LET f == Features(syslist)
    IN  [k \in 1..Len(f) |-> Log10Fixed(f[k])]

C13_Case == pc = "returned" /\ Len(Features(syslist)) > 0

C14_GridWellFormed ==
    pc = "returned" =>
        /\ Len(omega_out) = omega_num
        /\ \A k \in 1..Len(omega_out) : omega_out[k].den > 0
        /\ \A k \in 1..(Len(omega_out) - 1) :
               ExpNum(omega_out[k]) * ExpDen(omega_out[k + 1])
                   <= ExpNum(omega_out[k + 1]) * ExpDen(omega_out[k])

\* C14 witness: a discrete-time system next to a continuous-time one with
\* poles and zeros at the origin, Hz on: three samples that increase.
C14_Witness ==
    /\ pc = "returned" /\ Hz /\ omega_num = 3
    /\ Len(syslist) = 2 /\ syslist[1].dt > 0
    /\ syslist[2] = [dt |-> 0, pole |-> <<-2, 0>>, zero |-> <<-5>>]
    /\ Len(omega_out) = 3
    /\ ExpNum(omega_out[1]) < ExpNum(omega_out[2])
    /\ ExpNum(omega_out[2]) < ExpNum(omega_out[3])

\* C14 witness of equal decade bounds: the fallback feature 1 rad/s with a
\* periphery of half a decade rounds to the decade 0 on both sides, and the
\* three samples are all 1 rad/s.
C14_WitnessConstant ==
    /\ pc = "returned" /\ ~Hz /\ omega_num = 3
    /\ syslist = <<[dt |-> 0, pole |-> <<0>>, zero |-> <<>>]>>
    /\ feature_periphery_decades = LogUnit \div 2
    /\ \A k \in 1..3 : IsDecade(omega_out[k], 0)

NoFeature == Len(Features(syslist)) = 0

C15_Case ==
    /\ pc = "returned" /\ NoFeature
    /\ feature_periphery_decades = FeaturePeripheryDecades * LogUnit

NineTenthsNyquistLogs ==
    {Log10OfNineTenthsPi - (Log10(syslist[k].dt) - 2) * LogUnit :
        k \in {j \in 1..Len(syslist) : syslist[j].dt > 0}}

C15_WitnessDiscrete ==
    /\ C15_Case /\ ~Hz /\ omega_num = 2
    /\ syslist = <<[dt |-> 1, pole |-> <<ZOrigin>>, zero |-> <<>>]>>
    /\ IsDecade(omega_out[1], -1)
    /\ ExpNum(omega_out[2]) =
           (Log10OfNineTenthsPi + 2 * LogUnit) * ExpDen(omega_out[2])

(***************************************************************************)
(* The loop over the systems of bode_plot (lines 250-310), nyquist_plot    *)
(* (lines 687-773) and singular_values_plot (lines 1118-1167)              *)
(*                                                                         *)
(* The state starts after _determine_omega_vector returned omega_out and   *)
(* omega_range_given.  Frequencies are on the lattice of OmegaVals; a      *)
(* system carries its Nyquist frequency math.pi / dt (0: continuous time). *)
(* Of the contour of nyquist_plot only the errors are kept here.           *)
(***************************************************************************)

\* Bound: the longest list of systems of an analysis call.
MaxList == 2

Funcs == {"bode_plot", "nyquist_plot", "singular_values_plot"}

\* The systems.  siso: sys.issiso(); sstf: a StateSpace or TransferFunction;
\* nyquistfrq: math.pi / sys.dt for a discrete-time system, 0 for a
\* continuous-time one; above: the floating-point product
\* (math.pi / sys.dt) * sys.dt is greater than np.pi (it is for dt = 0.041,
\* and is not for dt = 0.1); poles: the s-plane poles of lines 725-732.
SweepSysVals ==
    { [siso |-> TRUE, sstf |-> TRUE, nyquistfrq |-> 0, above |-> FALSE,
       poles |-> <<[re |-> -3 * Scale, im |-> 0]>>],
      [siso |-> TRUE, sstf |-> TRUE, nyquistfrq |-> 0, above |-> FALSE,
       poles |-> <<>>],
      [siso |-> TRUE, sstf |-> TRUE, nyquistfrq |-> 0, above |-> FALSE,
       poles |-> <<[re |-> 0, im |-> 0]>>],
      [siso |-> TRUE, sstf |-> TRUE, nyquistfrq |-> 5 * Scale,
       above |-> FALSE, poles |-> <<[re |-> -3 * Scale, im |-> 0]>>],
      [siso |-> TRUE, sstf |-> TRUE, nyquistfrq |-> 5 * Scale,
       above |-> TRUE, poles |-> <<[re |-> -3 * Scale, im |-> 0]>>],
      [siso |-> FALSE, sstf |-> TRUE, nyquistfrq |-> 0, above |-> FALSE,
       poles |-> <<[re |-> -3 * Scale, im |-> 0]>>] }

\* Mutant: an automatically selected grid starts at 0 in every function.
StartOmegaAlwaysAtZero(f, om, given) ==
    IF ~given THEN [om EXCEPT ![1] = 0] ELSE om

\* lines 689-691: nyquist_plot starts an automatically selected grid at
\* frequency 0; bode_plot (211-212) and singular_values_plot (1118-1120)
\* keep the grid as it is
StartOmega(f, om, given) ==
    IF f = "nyquist_plot" /\ ~given THEN [om EXCEPT ![1] = 0] ELSE om

\* Mutant: the samples at the Nyquist frequency are kept.
ClipToNyquistInclusive(om, nyq) ==
    SelectSeq(om, LAMBDA w : w <= nyq) \o <<nyq>>

\* np.hstack((omega_sys[omega_sys < nyquistfrq], nyquistfrq)):
\* lines 262-263, 710-711 and 1152-1153
ClipToNyquist(om, nyq) ==
    SelectSeq(om, LAMBDA w : w < nyq) \o <<nyq>>

\* Mutant: a grid given by the caller is clipped as well.
OmegaSysAlwaysClipped(sy, om, given) ==
    IF sy.nyquistfrq > 0
    THEN ClipToNyquist(om, sy.nyquistfrq)
    ELSE om

\* lines 257-263, 702-711, 1147-1153: the grid of one system
OmegaSys(sy, om, given) ==
    IF sy.nyquistfrq > 0 /\ ~given
    THEN ClipToNyquist(om, sy.nyquistfrq)
    ELSE om

\* omega * sys.dt > np.pi (line 714), in floating point: at the sample
\* math.pi / dt the rounded product can be greater than np.pi
AboveNyquist(sy, w) ==
    w > sy.nyquistfrq \/ (w = sy.nyquistfrq /\ sy.above)

\* lines 705-715: the warning "evaluation above Nyquist frequency"
WarnsNyquist(sy, omega_s, warn) ==
    /\ sy.nyquistfrq > 0
    /\ warn
    /\ \E k \in 1..Len(omega_s) : AboveNyquist(sy, omega_s[k])

\* lines 723-757: the exception raised while the contour is built.
\* splane_contour[1] does not exist in a contour of one point (line 734);
\* argmin of an empty array of poles raises ValueError (line 743).
ContourError(sy, omega_s, dir) ==
    IF sy.sstf /\ dir # "none"
    THEN IF Len(omega_s) < 2 THEN "IndexError"
         ELSE IF Len(sy.poles) = 0 THEN "ValueError"
         ELSE "none"
    ELSE "none"

InitSweep ==
    /\ pc = "omega"
    /\ err = "none"
    /\ func \in Funcs
    /\ syslist \in SeqsUpTo(SweepSysVals, 1, MaxList)
    /\ omega_range_given \in BOOLEAN
    /\ omega_out \in {g \in Grids(MaxLen) : omega_range_given \/ g[1] > 0}
    /\ warn_nyquist \in BOOLEAN
    /\ indent_direction = "right"
    /\ idx = 0
    /\ warned = {}
    /\ omegas = <<>>
    /\ nyquistfrqs = <<>>
    /\ omega_sys = <<>>
    /\ omega_in = <<>> /\ omega_limits = <<>> /\ omega_num = 0 /\ Hz = FALSE
    /\ sys = <<>> /\ indent_radius = 0
    /\ splane_contour = <<>> /\ prepended = FALSE
    /\ resp = <<>> /\ phase = <<>> /\ count = 0
    /\ RangeIdle /\ AlignIdle /\ SigmaIdle

\* The variables that the loop over the systems leaves alone.
sweepFixed ==
    <<syslist, omega_in, omega_limits, omega_num, Hz, omega_range_given,
      sys, indent_radius, indent_direction, splane_contour, prepended,
      countVars, rangeVars, alignVars, sigmaVars, func, warn_nyquist>>

\* lines 211-212 and 250, 687-694, 1118-1121: the grid of the call and the
\* empty lists of results
BeginLoop ==
    /\ pc = "omega"
    /\ omega_out' = StartOmega(func, omega_out, omega_range_given)
    /\ idx' = 1
    /\ pc' = "loop"
    /\ UNCHANGED <<err, omega_sys, warned, omegas, nyquistfrqs, sweepFixed>>

\* An exception ends the call: the lists of results are lost.
Raise(e) ==
    /\ err' = e
    /\ pc' = "failed"
    /\ omegas' = <<>>
    /\ nyquistfrqs' = <<>>
    /\ UNCHANGED idx

\* The system is done: its grid and Nyquist frequency join the results.
AppendResults(os, nyq) ==
    /\ omegas' = Append(omegas, os)
    /\ nyquistfrqs' = Append(nyquistfrqs, nyq)
    /\ idx' = idx + 1
    /\ UNCHANGED <<err, pc>>

\* lines 251-310: one system of bode_plot
BodeSystem ==
    /\ pc = "loop" /\ func = "bode_plot" /\ idx <= Len(syslist)
    /\ LET sy == syslist[idx]
           os == OmegaSys(sy, omega_out, omega_range_given)
       IN  IF ~sy.siso
           THEN Raise("ControlMIMONotImplemented") /\ UNCHANGED omega_sys
           ELSE AppendResults(os, sy.nyquistfrq) /\ omega_sys' = os
    /\ UNCHANGED <<omega_out, warned, sweepFixed>>

\* lines 695-773: one system of nyquist_plot
NyquistSystem ==
    /\ pc = "loop" /\ func = "nyquist_plot" /\ idx <= Len(syslist)
    /\ LET sy == syslist[idx]
           os == OmegaSys(sy, omega_out, omega_range_given)
           e == ContourError(sy, os, indent_direction)
       IN  IF ~sy.siso
           THEN /\ Raise("ControlMIMONotImplemented")
                /\ UNCHANGED <<omega_sys, warned>>
           ELSE /\ omega_sys' = os
                /\ warned' = IF WarnsNyquist(sy, os, warn_nyquist)
                             THEN warned \cup {idx} ELSE warned
                /\ IF e # "none" THEN Raise(e)
                   ELSE AppendResults(os, sy.nyquistfrq)
    /\ UNCHANGED <<omega_out, sweepFixed>>

\* lines 1146-1167: one system of singular_values_plot
SingularValuesSystem ==
    /\ pc = "loop" /\ func = "singular_values_plot" /\ idx <= Len(syslist)
    /\ LET sy == syslist[idx]
           os == OmegaSys(sy, omega_out, omega_range_given)
       IN  AppendResults(os, sy.nyquistfrq) /\ omega_sys' = os
    /\ UNCHANGED <<omega_out, warned, sweepFixed>>

\* the end of the loop: the call returns its lists of results
ReturnResults ==
    /\ pc = "loop" /\ idx > Len(syslist)
    /\ pc' = "returned"
    /\ UNCHANGED <<err, omega_out, omega_sys, idx, warned, omegas,
                   nyquistfrqs, sweepFixed>>

NextSweep ==
    \/ BeginLoop
    \/ BodeSystem
    \/ NyquistSystem
    \/ SingularValuesSystem
    \/ ReturnResults

SpecSweep == InitSweep /\ [][NextSweep]_vars

(***************************************************************************)
(* Claims about the grids of the analysis calls                            *)
(***************************************************************************)

\* C16 as stated: every grid that an analysis call evaluates consists of
\* finite positive frequencies, except that a grid given by the caller may
\* contain 0; an automatically selected grid never contains 0.
C16_AutomaticGridHasNoZero ==
    \A k \in 1..Len(omegas) : \A j \in 1..Len(omegas[k]) :
        /\ omegas[k][j] >= 0
        /\ omegas[k][j] = 0 => omega_range_given

\* C16 as amended: a grid given by the caller is evaluated as it is, 0
\* included; an automatically selected grid is positive in bode_plot and
\* singular_values_plot, and in nyquist_plot its first sample is replaced
\* by 0 and the other samples are positive.
C16_GridsPositive ==
    \A k \in 1..Len(omegas) :
        IF omega_range_given
        THEN /\ omegas[k] = omega_out
             /\ \A j \in 1..Len(omegas[k]) : omegas[k][j] >= 0
        ELSE /\ func = "nyquist_plot" => omegas[k][1] = 0
             /\ func # "nyquist_plot" => omegas[k][1] > 0
             /\ \A j \in 2..Len(omegas[k]) : omegas[k][j] > 0

\* C16 witness: nyquist_plot evaluated an automatically selected grid of
\* three samples, which starts at 0.
C16_Witness ==
    /\ func = "nyquist_plot" /\ ~omega_range_given
    /\ Len(omegas) >= 1
    /\ Len(omegas[1]) = 3
    /\ omegas[1][1] = 0 /\ omegas[1][2] > 0

\* C16 witness: bode_plot evaluated an automatically selected grid for a
\* discrete-time system.
C16_WitnessBode ==
    /\ func = "bode_plot" /\ ~omega_range_given
    /\ Len(omegas) >= 1 /\ syslist[1].nyquistfrq > 0
    /\ omegas[1][1] > 0

\* C17: for a discrete-time system and an automatically selected range,
\* the grid of the system in bode_plot, nyquist_plot and
\* singular_values_plot ends with pi / dt, and every other sample is
\* strictly below pi / dt (so pi / dt is there exactly once).
C17_ClippedAtNyquist ==
    ~omega_range_given =>
        \A k \in 1..Len(omegas) :
            syslist[k].nyquistfrq > 0 =>
                LET g == omegas[k]
                IN  /\ Len(g) >= 1
                    /\ g[Len(g)] = syslist[k].nyquistfrq
                    /\ \A j \in 1..(Len(g) - 1) :
                           g[j] < syslist[k].nyquistfrq
                    /\ \A j \in 1..(Len(g) - 1) :
                           \E i \in 1..Len(omega_out) : g[j] = omega_out[i]

\* C17 witness: an automatic grid with a sample at pi / dt and one above
\* it; bode_plot keeps the sample below and appends pi / dt.
C17_Witness ==
    /\ func = "bode_plot" /\ ~omega_range_given
    /\ omega_out = <<3 * Scale, 5 * Scale, 8 * Scale>>
    /\ Len(omegas) >= 1
    /\ syslist[1].nyquistfrq = 5 * Scale
    /\ omegas[1] = <<3 * Scale, 5 * Scale>>

\* C17 witness for singular_values_plot and nyquist_plot.
C17_WitnessOthers ==
    /\ func # "bode_plot" /\ ~omega_range_given
    /\ Len(omega_out) = 3 /\ omega_out[3] = 8 * Scale
    /\ Len(omegas) = 2
    /\ syslist[2].nyquistfrq = 5 * Scale
    /\ omegas[2][Len(omegas[2])] = 5 * Scale

\* The system that the loop handled last.
Last == IF pc = "failed" THEN idx ELSE idx - 1

C18_Case ==
    /\ func = "nyquist_plot" /\ pc # "omega" /\ Last >= 1
    /\ syslist[Last].siso /\ syslist[Last].nyquistfrq > 0

\* C18: for a discrete-time system in nyquist_plot with a range given by
\* the caller no sample is removed, added or altered, a warning is raised
\* exactly when some sample exceeds pi / dt and warn_nyquist is set, and
\* the system is still evaluated on all the samples; with an automatically
\* selected range no warning is raised.
C18_WarningAboveNyquist ==
    C18_Case =>
        IF omega_range_given
        THEN /\ omega_sys = omega_out
             /\ Last \in warned <=>
                    (warn_nyquist /\ \E j \in 1..Len(omega_out) :
                         omega_out[j] > syslist[Last].nyquistfrq)
             /\ pc # "failed"
        ELSE Last \notin warned

\* C18, the part that holds: the same, for the systems whose product
\* (pi / dt) * dt is not rounded above pi and whose contour is built
\* without an error.
C18_WarningAboveNyquistExact ==
    (/\ C18_Case
     /\ ~syslist[Last].above
     /\ ~(pc = "failed" /\ err \in {"IndexError", "ValueError"})) =>
        IF omega_range_given
        THEN /\ omega_sys = omega_out
             /\ Last \in warned <=>
                    (warn_nyquist /\ \E j \in 1..Len(omega_out) :
                         omega_out[j] > syslist[Last].nyquistfrq)
             /\ pc # "failed"
        ELSE Last \notin warned

\* C18, the failure: an automatically selected range and a warning.
C18_WarnedOnAutomaticRange ==
    /\ C18_Case /\ ~omega_range_given
    /\ Last \in warned
    /\ \A j \in 1..Len(omega_sys) : omega_sys[j] <= syslist[Last].nyquistfrq

HasMIMO == \E k \in 1..Len(syslist) : ~syslist[k].siso

\* C19: bode_plot and nyquist_plot fail with ControlMIMONotImplemented for
\* every list of systems that holds a system that is not SISO, and return
\* no result, also when SISO systems earlier in the list were handled.
C19_MIMOFails ==
    (/\ func \in {"bode_plot", "nyquist_plot"}
     /\ pc \in {"returned", "failed"}
     /\ HasMIMO) =>
        /\ pc = "failed"
        /\ err = "ControlMIMONotImplemented"
        /\ omegas = <<>>

\* C19, the part that holds: bode_plot, and nyquist_plot unless the contour
\* of an earlier system raised.
C19_MIMOFailsButForContourErrors ==
    (/\ func \in {"bode_plot", "nyquist_plot"}
     /\ pc \in {"returned", "failed"}
     /\ HasMIMO
     /\ err \notin {"IndexError", "ValueError"}) =>
        /\ pc = "failed"
        /\ err = "ControlMIMONotImplemented"
        /\ omegas = <<>>

\* C19, the failure: nyquist_plot ended with another error although the
\* second system of the list is not SISO.
C19_OtherErrorFirst ==
    /\ func = "nyquist_plot" /\ pc = "failed"
    /\ Len(syslist) = 2 /\ ~syslist[2].siso
    /\ err = "ValueError"

\* C19: bode_plot handled a SISO system and then failed on the second one.
C19_AfterASISOSystem ==
    /\ func = "bode_plot" /\ pc = "failed"
    /\ Len(syslist) = 2 /\ syslist[1].siso /\ ~syslist[2].siso
    /\ err = "ControlMIMONotImplemented" /\ omegas = <<>>

(***************************************************************************)
(* The phase of bode_plot (lines 265-305)                                  *)
(*                                                                         *)
(* Phases are integers in units of pi / Pi, as in the encirclement count.  *)
(* A number given by the caller is the record [deg45, val, eps], the float *)
(* 45 deg45 + val pi / 4 + eps e, where e is a positive number smaller     *)
(* than pi / 4: an angle in degrees is 45 deg45, an angle in radians is    *)
(* val pi / 4, and a number of radians that was divided by 180 and         *)
(* multiplied by pi once more is +-e.                                      *)
(***************************************************************************)

\* Bound: the longest phase trace.
MaxTrace == 2

PhaseVals == {-3, 0, 2, Pi}
Traces == SeqsUpTo(PhaseVals, 1, MaxTrace)

Num(d, v, e) == [deg45 |-> d, val |-> v, eps |-> e]

Sgn(x) == IF x > 0 THEN 1 ELSE IF x < 0 THEN -1 ELSE 0

\* x / 180. * math.pi (line 280), x * math.pi / 180. (line 299)
DegToRad(x) ==
    Num(0, x.deg45, IF x.val # 0 THEN Sgn(x.val) ELSE Sgn(x.eps))

\* initial_phase: None, a number, or another object
NoPhase == [kind |-> "none", num |-> Num(0, 0, 0)]
PhaseNumber(x) == [kind |-> "number", num |-> x]
PhaseOther == [kind |-> "other", num |-> Num(0, 0, 0)]

\* wrap_phase: False or True, a number, or another object
WrapBool(b) == [kind |-> "bool", b |-> b, num |-> Num(0, 0, 0)]
WrapNumber(x) == [kind |-> "number", b |-> FALSE, num |-> x]
WrapOther == [kind |-> "other", b |-> FALSE, num |-> Num(0, 0, 0)]

\* The angles a caller gives: in degrees when deg is set, in radians
\* otherwise (-180, 0 and 270 degrees).
AngleArgs(d) ==
    IF d THEN {Num(-4, 0, 0), Num(0, 0, 0), Num(6, 0, 0)}
    ELSE {Num(0, -4, 0), Num(0, 0, 0), Num(0, 6, 0)}

\* abs(p - t) > math.pi, for a phase p and a number t of radians
Exceeds(p, t) ==
    LET m == p - t.val
    IN  \/ m > Pi
        \/ m < -Pi
        \/ m = Pi /\ t.eps < 0
        \/ m = -Pi /\ t.eps > 0

\* Mutant: the number of turns is truncated.
RoundTurnsTowardZero(p, t) == RoundTowardZero(p - t.val, 2 * Pi)

\* round((p - t) / (2 * math.pi)) (line 285): Python's round, halves to
\* the even integer
RoundTurns(p, t) ==
    LET m == p - t.val
    IN  IF m % (2 * Pi) = Pi /\ t.eps # 0
        THEN (m \div (2 * Pi)) + (IF t.eps < 0 THEN 1 ELSE 0)
        ELSE RoundHalfEven(m, 2 * Pi)

\* Mutant: the phase is shifted by half turns.
ShiftByHalfTurns(ph, t) ==
    IF Exceeds(ph[1], t)
    THEN [k \in 1..Len(ph) |-> ph[k] - Pi * RoundTurns(ph[1], t)]
    ELSE ph

\* lines 284-285: the phase is shifted by whole turns when its first
\* sample is farther than pi from initial_phase
ShiftToInitialPhase(ph, t) ==
    IF Exceeds(ph[1], t)
    THEN [k \in 1..Len(ph) |-> ph[k] - 2 * Pi * RoundTurns(ph[1], t)]
    ELSE ph

\* Mutant: the number of turns is rounded down.
FloorTurns(theta, p) ==
    LET m == theta.val - p
    IN  IF theta.eps < 0 THEN ((m - 1) \div (2 * Pi)) ELSE m \div (2 * Pi)

\* np.ceil((theta - p) / (2 * math.pi)) (line 303)
CeilTurns(theta, p) ==
    LET m == theta.val - p
    IN  IF theta.eps > 0 THEN (m \div (2 * Pi)) + 1
        ELSE -((-m) \div (2 * Pi))

\* lines 301-303: the phase is raised by whole turns above wrap_phase
RaiseAbove(ph, theta) ==
    [k \in 1..Len(ph) |->
        LET c == CeilTurns(theta, ph[k])
        IN  ph[k] + 2 * Pi * (IF c > 0 THEN c ELSE 0)]

\* Mutant: every object passes for a number.
IsAnything(x) == TRUE

\* isinstance(x, (int, float)) (lines 279 and 296)
IsNumber(x) == x.kind = "number"

\* lines 275-283: the value of initial_phase after the test, in radians
InitialPhaseOf(ip, wp, d) ==
    IF ip.kind = "none"
    THEN PhaseNumber(Num(0, IF wp.kind = "bool" /\ wp.b THEN 0 ELSE -Pi, 0))
    ELSE IF d THEN PhaseNumber(DegToRad(ip.num)) ELSE ip

InitAlign ==
    /\ pc = "loop"
    /\ err = "none"
    /\ deg \in BOOLEAN
    /\ initial_phase \in
           {NoPhase, PhaseOther} \cup {PhaseNumber(x) : x \in AngleArgs(deg)}
    /\ wrap_phase \in
           {WrapBool(FALSE), WrapBool(TRUE), WrapOther}
               \cup {WrapNumber(x) : x \in AngleArgs(deg)}
    /\ kwargs = [initial_phase |-> initial_phase, wrap_phase |-> wrap_phase]
    /\ syslist \in {<<"sys1">>, <<"sys1", "sys2">>}
    /\ idx = 1
    /\ raw_phase = <<>>
    /\ phase = <<>>
    /\ phases = <<>>
    /\ func = "bode_plot" /\ warn_nyquist = FALSE /\ warned = {}
    /\ omegas = <<>> /\ nyquistfrqs = <<>>
    /\ omega_in = <<>> /\ omega_limits = <<>> /\ omega_num = 0 /\ Hz = FALSE
    /\ omega_out = <<>> /\ omega_range_given = FALSE
    /\ sys = <<>> /\ indent_radius = 0 /\ indent_direction = "none"
    /\ omega_sys = <<>> /\ splane_contour = <<>> /\ prepended = FALSE
    /\ resp = <<>> /\ count = 0
    /\ RangeIdle /\ SigmaIdle

\* The variables that the phase of bode_plot leaves alone.
alignFixed ==
    <<syslist, omega_in, omega_limits, omega_num, Hz, omega_out,
      omega_range_given, contourVars, resp, count, rangeVars, func,
      warn_nyquist, warned, omegas, nyquistfrqs, deg, kwargs, sigmaVars>>

\* lines 265-305, for the system idx whose frequency response has the
\* phase raw: initial_phase and wrap_phase are assigned to, and keep their
\* new values for the next system
AlignPhase ==
    /\ pc = "loop" /\ idx <= Len(syslist)
    /\ \E raw \in Traces :
        /\ raw_phase' = raw
        /\ IF initial_phase.kind # "none" /\ ~IsNumber(initial_phase)
           THEN /\ err' = "ValueError"
                /\ pc' = "failed"
                /\ phases' = <<>>
                /\ UNCHANGED <<initial_phase, wrap_phase, phase, idx>>
           ELSE LET ip == InitialPhaseOf(initial_phase, wrap_phase, deg)
                    shifted == ShiftToInitialPhase(raw, ip.num)
                IN  /\ initial_phase' = ip
                    /\ IF wrap_phase.kind = "bool"
                       THEN /\ phase' = IF wrap_phase.b THEN shifted
                                        ELSE unwrap(shifted)
                            /\ phases' = Append(phases, phase')
                            /\ idx' = idx + 1
                            /\ UNCHANGED <<wrap_phase, err, pc>>
                       ELSE IF IsNumber(wrap_phase)
                       THEN LET theta == IF deg THEN DegToRad(wrap_phase.num)
                                         ELSE wrap_phase.num
                            IN  /\ wrap_phase' = WrapNumber(theta)
                                /\ phase' = RaiseAbove(unwrap(shifted), theta)
                                /\ phases' = Append(phases, phase')
                                /\ idx' = idx + 1
                                /\ UNCHANGED <<err, pc>>
                       ELSE /\ err' = "ValueError"
                            /\ pc' = "failed"
                            /\ phases' = <<>>
                            /\ UNCHANGED <<wrap_phase, phase, idx>>
    /\ UNCHANGED alignFixed

\* lines 510-513: the call returns
ReturnPhases ==
    /\ pc = "loop" /\ idx > Len(syslist)
    /\ pc' = "returned"
    /\ UNCHANGED <<err, idx, initial_phase, wrap_phase, raw_phase, phase,
                   phases, alignFixed>>

NextAlign == AlignPhase \/ ReturnPhases

SpecAlign == InitAlign /\ [][NextAlign]_vars

(***************************************************************************)
(* Claims about the phase of bode_plot                                     *)
(***************************************************************************)

\* A system went through lines 265-305 without an error: raw_phase is its
\* raw phase, phase the trace kept for it and initial_phase the value that
\* its first sample was compared to.
Aligned == idx >= 2 /\ pc # "failed"

UnwrapOrWrapMode == wrap_phase.kind = "bool"

\* The value of initial_phase for the first system of the call: -pi by
\* default (0 with wrap_phase True), the caller's angle otherwise, in
\* radians.
CallTarget ==
    IF kwargs.initial_phase.kind = "none"
    THEN Num(0, IF kwargs.wrap_phase = WrapBool(TRUE) THEN 0 ELSE -Pi, 0)
    ELSE IF deg THEN Num(0, kwargs.initial_phase.num.deg45, 0)
    ELSE kwargs.initial_phase.num

C20_WitnessWrap ==
    /\ Aligned /\ idx = 2 /\ deg
    /\ kwargs.initial_phase = PhaseNumber(Num(6, 0, 0))
    /\ kwargs.wrap_phase = WrapBool(TRUE)
    /\ raw_phase[1] = 0
    /\ phase[1] = 2 * Pi

UnwrapMode == wrap_phase = WrapBool(FALSE)

\* C21: with wrap_phase False every sample of the trace differs from the
\* raw sample (an angle in (-pi, pi]) by a whole number of turns, so that
\* wrapping the trace again gives the raw trace, and successive samples of
\* the trace differ by pi at most.
C21_UnwrapRoundTrip ==
    (Aligned /\ UnwrapMode) =>
        /\ Len(phase) = Len(raw_phase)
        /\ \A k \in 1..Len(phase) :
               /\ (phase[k] - raw_phase[k]) % (2 * Pi) = 0
               /\ WrapDiff(phase[k]) = raw_phase[k]
        /\ \A k \in 1..(Len(phase) - 1) :
               Abs(phase[k + 1] - phase[k]) <= Pi

\* C21 witness: the raw phase pi, -3 pi / 4 with the default initial phase
\* is shifted down a turn and its second sample is brought back next to
\* the first.
C21_Witness ==
    /\ Aligned /\ UnwrapMode
    /\ kwargs.initial_phase = NoPhase
    /\ raw_phase = <<Pi, -3>>
    /\ phase = <<-Pi, -3>>

ThresholdMode == wrap_phase.kind = "number"

\* The trace before the threshold is applied: shifted to the initial phase
\* and unwrapped (lines 284-285 and 297).
Unwrapped == unwrap(ShiftToInitialPhase(raw_phase, initial_phase.num))

\* p >= t and p < t + 2 pi, for a phase p and a number t of radians
AtLeast(p, t) == p > t.val \/ (p = t.val /\ t.eps <= 0)
BelowNextTurn(p, t) ==
    p - 2 * Pi < t.val \/ (p - 2 * Pi = t.val /\ t.eps > 0)

\* The threshold of the first system of the call, in radians.
CallThreshold ==
    IF deg THEN Num(0, kwargs.wrap_phase.num.deg45, 0)
    ELSE kwargs.wrap_phase.num

C22_WitnessTwoTurns ==
    /\ Aligned /\ ThresholdMode /\ idx = 2 /\ deg
    /\ kwargs.wrap_phase = WrapNumber(Num(6, 0, 0))
    /\ \E k \in 1..Len(phase) : phase[k] - Unwrapped[k] = 4 * Pi

\* The call's wrap_phase is not False, True or a number, or its
\* initial_phase is given and is not a number.
InvalidArguments ==
    \/ kwargs.wrap_phase.kind = "other"
    \/ kwargs.initial_phase.kind = "other"

\* C23: the phase processing fails with ValueError and no phase is
\* returned when wrap_phase is not False, True or a number or initial_phase
\* is given and is not a number; with any other arguments it does not
\* fail, and keeps a trace for every system handled.
C23_InvalidArgumentsFail ==
    (idx >= 2 \/ pc # "loop") =>
        IF InvalidArguments
        THEN pc = "failed" /\ err = "ValueError" /\ phases = <<>>
        ELSE /\ pc # "failed" /\ err = "none"
             /\ Len(phases) = idx - 1
             /\ \A k \in 1..Len(phases) : Len(phases[k]) >= 1

\* C23 witness: a numeric initial_phase and a wrap_phase that is neither a
\* bool nor a number.
C23_Witness ==
    /\ pc = "failed" /\ err = "ValueError" /\ phases = <<>>
    /\ kwargs.initial_phase.kind = "number"
    /\ kwargs.wrap_phase = WrapOther

\* C23 witness: an initial_phase that is not a number, with wrap_phase True.
C23_WitnessInitialPhase ==
    /\ pc = "failed" /\ err = "ValueError"
    /\ kwargs.initial_phase = PhaseOther
    /\ kwargs.wrap_phase = WrapBool(TRUE)

\* C23 witness: a call with a numeric threshold and no initial_phase
\* returns the traces of two systems.
C23_WitnessReturns ==
    /\ pc = "returned" /\ Len(phases) = 2
    /\ kwargs.initial_phase = NoPhase
    /\ kwargs.wrap_phase.kind = "number"

WrapMode == wrap_phase = WrapBool(TRUE)

\* C24: with wrap_phase True every sample of the phase is in [-pi, pi),
\* for every raw phase and every initial_phase.
C24_WrapRestrictsRange ==
    (Aligned /\ WrapMode) =>
        \A k \in 1..Len(phase) : phase[k] >= -Pi /\ phase[k] < Pi

\* C24, what the code does: the raw phase is kept when initial_phase is
\* not given (angles in (-pi, pi], pi included), and is shifted as a whole
\* otherwise, so that its first sample is within pi of initial_phase.
C24_WrapKeepsRawPhase ==
    (Aligned /\ WrapMode) =>
        /\ kwargs.initial_phase = NoPhase => phase = raw_phase
        /\ \E n \in -2..2 :
               phase = [k \in 1..Len(raw_phase) |-> raw_phase[k] + 2 * Pi * n]
        /\ \A k \in 1..Len(phase) : \A j \in 1..Len(phase) :
               Abs(phase[k] - phase[j]) < 2 * Pi

\* C24, the failure: with initial_phase = 270 degrees a raw phase of 0 is
\* returned as 2 pi.
C24_ShiftedOutOfRange ==
    /\ Aligned /\ WrapMode /\ idx = 2 /\ deg
    /\ kwargs.initial_phase = PhaseNumber(Num(6, 0, 0))
    /\ raw_phase[1] = 0
    /\ phase[1] = 2 * Pi

\* C24, the failure with the default initial_phase: a sample equal to pi.
C24_SampleAtPi ==
    /\ Aligned /\ WrapMode
    /\ kwargs.initial_phase = NoPhase
    /\ \E k \in 1..Len(phase) : phase[k] = Pi

\* The phase that bode_plot returns for a system with the raw phase raw
\* when the system is the only one of the call (one pass of lines 265-305
\* from the call's arguments).
SinglePhase(raw) ==
    LET ip == InitialPhaseOf(kwargs.initial_phase, kwargs.wrap_phase, deg)
        shifted == ShiftToInitialPhase(raw, ip.num)
        wp == kwargs.wrap_phase
    IN  IF wp.kind = "bool"
        THEN IF wp.b THEN shifted ELSE unwrap(shifted)
        ELSE RaiseAbove(unwrap(shifted),
                        IF deg THEN DegToRad(wp.num) ELSE wp.num)

\* C25: the phase returned for every system of a list is the phase that a
\* call with that system alone and the same arguments returns.
C25_NoCrossSystemDependency ==
    Aligned =>
        /\ phase = SinglePhase(raw_phase)
        /\ phases[idx - 1] = phase

\* C25, the part that holds: the first system of a list, and every system
\* when the angles are given in radians (deg = False).
C25_FirstSystemOrRadians ==
    (Aligned /\ (idx = 2 \/ ~deg)) =>
        /\ phase = SinglePhase(raw_phase)
        /\ phases[idx - 1] = phase

\* C25, the failure: with deg = True and the default arguments the second
\* system, whose raw phase starts at pi / 2, keeps it, while on its own its
\* phase starts at -3 pi / 2.
C25_SecondSystemDiffers ==
    /\ Aligned /\ idx = 3 /\ deg
    /\ kwargs.initial_phase = NoPhase /\ kwargs.wrap_phase = WrapBool(FALSE)
    /\ raw_phase[1] = 2
    /\ phase[1] = 2
    /\ SinglePhase(raw_phase)[1] = 2 - 2 * Pi

\* C25, the failure for the threshold: 270 degrees is converted twice for
\* the second system.
C25_ThresholdConvertedTwice ==
    /\ Aligned /\ idx = 3 /\ deg
    /\ kwargs.wrap_phase = WrapNumber(Num(6, 0, 0))
    /\ wrap_phase = WrapNumber(Num(0, 0, 1))

(***************************************************************************)
(* Claims about singular_values_plot                                       *)
(***************************************************************************)

\* The grid g is the grid of the call clipped at the Nyquist frequency nyq:
\* the samples below nyq, in their order, and then nyq.
ClippedAt(g, nyq) ==
    /\ Len(g) >= 1
    /\ g[Len(g)] = nyq
    /\ \A j \in 1..(Len(g) - 1) : g[j] < nyq
    /\ SubSeq(g, 1, Len(g) - 1) = SelectSeq(omega_out, LAMBDA w : w < nyq)

\* singular_values_plot handled the discrete-time system k.
SigmaCase(k) ==
    /\ func = "singular_values_plot"
    /\ k \in 1..Len(omegas)
    /\ syslist[k].nyquistfrq > 0

C26_WitnessClipped ==
    /\ SigmaCase(1) /\ ~omega_range_given
    /\ omega_out = <<3 * Scale, 5 * Scale, 8 * Scale>>
    /\ omegas[1] = <<3 * Scale, 5 * Scale>>

(***************************************************************************)
(* The singular values of singular_values_plot (lines 1160-1166, 1200-1203)*)
(*                                                                         *)
(* A frequency response is an array indexed by output, input and           *)
(* frequency.  The response matrices have mutually orthogonal rows with    *)
(* norms that are integers, so that their singular values are exact: the   *)
(* norms of the rows, in descending order.                                 *)
(***************************************************************************)

\* Bound: the number of frequencies of a response.
MaxFreq == 2

C(x, y) == [re |-> x, im |-> y]

\* The response matrices of a system at one frequency, by the shape of the
\* system: 1 x 1 (SISO), 1 x 2 and 2 x 2.
ResponseMatrices(shape) ==
    CASE shape = "1x1" ->
           { <<<<C(0, 0)>>>>, <<<<C(-2, 0)>>>>, <<<<C(3, 4)>>>> }
      [] shape = "1x2" ->
           { <<<<C(3, 0), C(0, 4)>>>>, <<<<C(0, 0), C(0, -2)>>>> }
      [] shape = "2x2" ->
           { <<<<C(-2, 0), C(0, 0)>>, <<C(0, 0), C(3, 4)>>>>,
             <<<<C(3, 4), C(0, 0)>>, <<C(0, 0), C(-2, 0)>>>>,
             <<<<C(0, 0), C(0, 1)>>, <<C(0, 0), C(0, 0)>>>>,
             <<<<C(3, 0), C(4, 0)>>, <<C(-4, 0), C(3, 0)>>>> }

Shapes == {"1x1", "1x2", "2x2"}

\* sys(omega_complex, squeeze=False) (line 1160): the array indexed by
\* output, input and frequency, for the matrices Ms of the frequencies
EvaluateSystem(Ms) ==
    [i \in 1..Len(Ms[1]) |->
        [j \in 1..Len(Ms[1][1]) |->
            [n \in 1..Len(Ms) |-> Ms[n][i][j]]]]

\* fresp.transpose((2, 0, 1)) (line 1162): frequency, output, input
FrequencyFirst(f) ==
    [n \in 1..Len(f[1][1]) |->
        [i \in 1..Len(f) |->
            [j \in 1..Len(f[1]) |-> f[i][j][n]]]]

Isqrt(q) == CHOOSE m \in 0..q : m * m = q

\* abs(z)
AbsC(z) == Isqrt(z.re * z.re + z.im * z.im)

\* The norm of a row of a matrix.
RowNorm(row) ==
    Isqrt(Sum([j \in 1..Len(row) |-> AbsC(row[j]) * AbsC(row[j])]))

\* A sequence of numbers in descending order.
RECURSIVE SortDescending(_)
SortDescending(s) ==
    IF Len(s) = 0 THEN <<>>
    ELSE LET k == CHOOSE k \in 1..Len(s) :
                      \A j \in 1..Len(s) : s[j] <= s[k]
             rest == [j \in 1..(Len(s) - 1) |->
                          IF j < k THEN s[j] ELSE s[j + 1]]
         IN  <<s[k]>> \o SortDescending(rest)

\* np.linalg.svd(M, compute_uv=False) for a matrix with orthogonal rows and
\* no more rows than columns: the norms of the rows, in descending order
Svd(M) == SortDescending([i \in 1..Len(M) |-> RowNorm(M[i])])

\* Mutant: the array of singular values is kept frequency first.
KeepFrequencyFirst(a) == a

\* sigma.transpose() (line 1164) of an array of Len(a) >= 1 rows
Transpose(a) ==
    [k \in 1..Len(a[1]) |-> [n \in 1..Len(a) |-> a[n][k]]]

\* lines 1160-1164: the singular values of a response, channel first
SingularValues(f) ==
    LET moved == FrequencyFirst(f)
        sigma == [n \in 1..Len(moved) |-> Svd(moved[n])]
    IN  Transpose(sigma)

\* lines 1200-1203: what the call returns
SigmaOut == IF Len(syslist) = 1 THEN sigmas[1] ELSE sigmas

InitSigma ==
    /\ pc = "loop"
    /\ err = "none"
    /\ func = "singular_values_plot"
    /\ syslist \in SeqsUpTo(Shapes, 1, 2)
    /\ idx = 1
    /\ fresp = <<>>
    /\ sigmas = <<>>
    /\ warn_nyquist = FALSE /\ warned = {}
    /\ omegas = <<>> /\ nyquistfrqs = <<>>
    /\ omega_in = <<>> /\ omega_limits = <<>> /\ omega_num = 0 /\ Hz = FALSE
    /\ omega_out = <<>> /\ omega_range_given = FALSE
    /\ sys = <<>> /\ indent_radius = 0 /\ indent_direction = "none"
    /\ omega_sys = <<>> /\ splane_contour = <<>> /\ prepended = FALSE
    /\ resp = <<>> /\ phase = <<>> /\ count = 0
    /\ RangeIdle /\ AlignIdle

\* The variables that the singular values leave alone.
sigmaFixed ==
    <<err, syslist, omega_in, omega_limits, omega_num, Hz, omega_out,
      omega_range_given, contourVars, countVars, rangeVars, func,
      warn_nyquist, warned, omegas, nyquistfrqs, alignVars>>

\* lines 1145-1167, for the system idx: its response at 1 to MaxFreq
\* frequencies, the singular values of the response, and the list of
\* results
SigmaSystem ==
    /\ pc = "loop" /\ idx <= Len(syslist)
    /\ \E Ms \in SeqsUpTo(ResponseMatrices(syslist[idx]), 1, MaxFreq) :
        /\ fresp' = EvaluateSystem(Ms)
        /\ sigmas' = Append(sigmas, SingularValues(fresp'))
    /\ idx' = idx + 1
    /\ UNCHANGED <<pc, sigmaFixed>>

\* lines 1200-1203: the call returns
ReturnSigmas ==
    /\ pc = "loop" /\ idx > Len(syslist)
    /\ pc' = "returned"
    /\ UNCHANGED <<idx, fresp, sigmas, sigmaFixed>>

NextSigma == SigmaSystem \/ ReturnSigmas

SpecSigma == InitSigma /\ [][NextSigma]_vars

(***************************************************************************)
(* Claims about the singular values                                        *)
(***************************************************************************)

\* The number of singular values of a system of the given shape.
NumSigma(shape) == IF shape = "2x2" THEN 2 ELSE 1

\* The trace of the system that the loop handled last.
LastSigma == sigmas[idx - 1]

\* The number of frequencies of the response of that system.
NumFreq == Len(fresp[1][1])

\* C27: the trace of a system with K singular values over N frequencies
\* has K rows of N samples; at every frequency the rows hold the singular
\* values of the response matrix (here the norms of its rows) in
\* descending order, all of them non-negative; the trace of a SISO system
\* is one row, the magnitude of the response at every frequency; a call
\* with one system returns its trace, a call with more the list of traces.
C27_ChannelFirst ==
    (idx >= 2) =>
        LET K == NumSigma(syslist[idx - 1])
        IN  /\ Len(sigmas) = idx - 1
            /\ Len(LastSigma) = K
            /\ \A k \in 1..K : Len(LastSigma[k]) = NumFreq
            /\ \A n \in 1..NumFreq :
                   /\ \A k \in 1..K : LastSigma[k][n] >= 0
                   /\ \A k \in 1..(K - 1) :
                          LastSigma[k][n] >= LastSigma[k + 1][n]
                   /\ \E q \in Permutations(1..K) :
                          \A k \in 1..K :
                              LET row == [j \in 1..Len(fresp[1]) |->
                                              fresp[q[k]][j][n]]
                              IN  LastSigma[k][n] * LastSigma[k][n]
                                    = Sum([j \in 1..Len(row) |->
                                             row[j].re * row[j].re
                                               + row[j].im * row[j].im])
            /\ syslist[idx - 1] = "1x1" =>
                   LastSigma = <<[n \in 1..NumFreq |-> AbsC(fresp[1][1][n])]>>
            /\ (pc = "returned" /\ Len(syslist) = 1) => SigmaOut = LastSigma

\* C27 witness: a 2 x 2 system over two frequencies whose larger singular
\* value comes from the second output at the first frequency and from the
\* first output at the second.
C27_Witness ==
    /\ idx >= 2 /\ syslist[idx - 1] = "2x2"
    /\ FrequencyFirst(fresp) =
           << <<<<C(-2, 0), C(0, 0)>>, <<C(0, 0), C(3, 4)>>>>,
              <<<<C(0, 0), C(0, 1)>>, <<C(0, 0), C(0, 0)>>>> >>
    /\ LastSigma = <<<<5, 1>>, <<2, 0>>>>

\* C27 witness: a SISO system over two frequencies, returned by a call with
\* that system alone.
C27_WitnessSISO ==
    /\ pc = "returned" /\ syslist = <<"1x1">>
    /\ fresp = <<<<<<C(3, 4), C(-2, 0)>>>>>>
    /\ SigmaOut = <<<<5, 2>>>>

(***************************************************************************)
(* Claims about the distance of the contour to the poles                   *)
(***************************************************************************)

\* The sign of L - c * sqrt(q), for L >= 0, c > 0 and q >= 0, without a
\* product greater than the numbers of the model allow: with L = c u + v,
\* (L / c)^2 - q is (2 u v c + v^2) / c^2 - (q - u^2).
SqrtCompare(L, c, q) ==
    LET u == L \div c
        v == L % c
        w == q - u * u
    IN  IF w < 0 THEN 1
        ELSE IF w > 2 * u + 1 THEN -1
        ELSE Sgn(2 * u * v * c + v * v - c * c * w)

\* abs(s - p) >= r, for a contour point s = sgn sqrt(re2) + 1j im and a
\* pole p: re2 + p.re^2 + (im - p.im)^2 - r^2 >= 2 p.re sgn sqrt(re2)
FarFrom(s, p, r) ==
    LET L == s.re2 + p.re * p.re + (s.im - p.im) * (s.im - p.im) - r * r
        T == 2 * p.re * s.sgn
    IN  IF T = 0 \/ s.re2 = 0 THEN L >= 0
        ELSE IF T > 0 THEN L >= 0 /\ SqrtCompare(L, T, s.re2) >= 0
        ELSE L >= 0 \/ SqrtCompare(-L, -T, s.re2) <= 0

\* C28: after the indentation every point of the contour is at distance
\* indent_radius or more from every pole of the system.
C28_FarFromEveryPole ==
    LoopRan =>
        \A j \in 1..Len(splane_contour) : \A k \in 1..Len(sys.poles) :
            FarFrom(splane_contour[j], sys.poles[k], indent_radius)

\* C28, what the code ensures: a point that was not moved is at distance
\* indent_radius or more from every pole, and a point that was moved is at
\* that distance from the pole nearest to it before the move when it went
\* to the side opposite to that pole.
C28_FarFromNearestPole ==
    LoopRan =>
        \A j \in 1..Len(splane_contour) :
            LET s == splane_contour[j]
                p == NearestPole(PreIm(j))
            IN  /\ s = Imag(PreIm(j)) /\ ~Near(PreIm(j)) =>
                       \A k \in 1..Len(sys.poles) :
                           FarFrom(s, sys.poles[k], indent_radius)
                /\ s.sgn * p.re <= 0 /\ s.sgn # 0 =>
                       FarFrom(s, p, indent_radius)

\* C28, the failure: the point at frequency 0, nearest to the stable pole
\* at -1, is moved to the right by indent_radius = 4 and ends at distance 1
\* from the unstable pole at 3.
C28_MovedNextToAnotherPole ==
    /\ LoopRan /\ indent_direction = "right"
    /\ indent_radius = 4 * Scale
    /\ sys.poles = <<[re |-> -1 * Scale, im |-> 0],
                     [re |-> 3 * Scale, im |-> 0]>>
    /\ omega_sys[1] = 0
    /\ splane_contour[1] =
           [sgn |-> 1, re2 |-> indent_radius * indent_radius, im |-> 0]
    /\ ~FarFrom(splane_contour[1], sys.poles[2], indent_radius)

(***************************************************************************)
(* Claims about the errors of the contour construction                     *)
(***************************************************************************)

\* The indentation is enabled for the system, and the call has ended.
IndentEnabled == sys # <<>> /\ sys.sstf /\ indent_direction # "none"
ContourEnded == pc \in {"contour", "failed"}

\* No point of the grid is within indent_radius of a pole.
NoPoleNear ==
    \A j \in 1..Len(omega_sys) : \A k \in 1..Len(sys.poles) :
        SqDist(omega_sys[j], sys.poles[k]) >= indent_radius * indent_radius

\* C29: with the indentation enabled the contour construction ends without
\* an error for every grid of one sample or more and every set of poles,
\* the empty one included, and gives the contour 1j * omega when no pole is
\* within indent_radius of it.
C29_ContourIsTotal ==
    (IndentEnabled /\ ContourEnded) =>
        /\ pc = "contour" /\ err = "none"
        /\ (NoPoleNear /\ ~prepended) =>
               splane_contour = [k \in 1..Len(omega_sys) |->
                                    Imag(omega_sys[k])]

\* C29, the part that holds: the same for the grids of two samples or more
\* and the systems with a pole; the other calls fail with IndexError (one
\* sample) or ValueError (no pole).
C29_TotalButForOneSampleOrNoPole ==
    (IndentEnabled /\ ContourEnded) =>
        IF Len(omega_sys) < 2
        THEN pc = "failed" /\ err = "IndexError"
        ELSE IF Len(sys.poles) = 0
        THEN pc = "failed" /\ err = "ValueError"
        ELSE /\ pc = "contour" /\ err = "none"
             /\ (NoPoleNear /\ ~prepended) =>
                    splane_contour = [k \in 1..Len(omega_sys) |->
                                         Imag(omega_sys[k])]

\* C29, the failure: a grid of one sample given by the caller.
C29_OneSampleFails ==
    /\ IndentEnabled /\ pc = "failed" /\ err = "IndexError"
    /\ omega_range_given /\ Len(omega_sys) = 1
    /\ Len(sys.poles) >= 1

\* C29, the failure: a system without poles.
C29_NoPoleFails ==
    /\ IndentEnabled /\ pc = "failed" /\ err = "ValueError"
    /\ Len(omega_sys) >= 2
    /\ sys.poles = <<>>

\* The point j of the contour was moved by the loop.
Moved(j) == splane_contour[j] # Imag(PreIm(j))

\* C30: for a point within indent_radius of its nearest pole p the
\* radicand indent_radius^2 - Im(s - p)^2 is positive and not greater than
\* indent_radius^2; a point is moved only then, by the square root of the
\* radicand; and a point moved to the right with Re(p) <= 0, or to the
\* left with Re(p) >= 0, ends at distance indent_radius or more from p.
C30_ShiftIsWellDefined ==
    LoopRan =>
        \A j \in 1..Len(splane_contour) :
            LET s == splane_contour[j]
                p == NearestPole(PreIm(j))
            IN  /\ Near(PreIm(j)) =>
                       /\ Radicand(PreIm(j)) > 0
                       /\ Radicand(PreIm(j)) <= indent_radius * indent_radius
                /\ Moved(j) =>
                       /\ Near(PreIm(j))
                       /\ s.sgn \in {-1, 1}
                       /\ s.re2 = Radicand(PreIm(j))
                       /\ s.im = PreIm(j)
                /\ (Moved(j) /\ ((s.sgn = 1 /\ p.re <= 0)
                                     \/ (s.sgn = -1 /\ p.re >= 0))) =>
                       FarFrom(s, p, indent_radius)

\* C30 witness: a point not at the height of its nearest pole, a stable
\* pole off the axis, was moved to the right by less than indent_radius and
\* is farther than indent_radius from the pole.
C30_Witness ==
    /\ LoopRan
    /\ \E j \in 1..Len(splane_contour) :
           LET s == splane_contour[j]
               p == NearestPole(PreIm(j))
           IN  /\ Moved(j) /\ s.sgn = 1
               /\ p.re < -IsCloseAtol
               /\ PreIm(j) # p.im
               /\ s.re2 < indent_radius * indent_radius
               /\ FarFrom(s, p, indent_radius + 1)

\* C30 witness: a point moved to the left of an unstable pole.
C30_WitnessLeft ==
    /\ LoopRan
    /\ \E j \in 1..Len(splane_contour) :
           /\ Moved(j) /\ splane_contour[j].sgn = -1
           /\ NearestPole(PreIm(j)).re > IsCloseAtol

====
